---- MODULE Spec2Model ----
(***************************************************************************)
(* Carbon-emission import / reference-reload / aggregation pipeline of     *)
(* crates/story/examples/excel_table.rs.                                   *)
(*                                                                         *)
(* Text is a sequence of character tokens (a token stands for one          *)
(* character; CJK characters are written in pinyin).  Numbers are          *)
(* non-negative integers: every quantity and factor of the model is        *)
(* integer valued, so f64 arithmetic and "{:.2}" are exact on them.        *)
(***************************************************************************)
EXTENDS Integers, Sequences, FiniteSets, TLC

VARIABLES
    sheets,         \* table sheets(id, name UNIQUE), in id order
    excel_data,     \* table excel_data(id, sheet_id, ..., category), in id order
    labor,          \* table labor(code PRIMARY KEY, carbon_factor)
    material,       \* table material(code PRIMARY KEY, carbon_factor)
    machine,        \* table machine(code PRIMARY KEY, carbon_factor)
    current_sheet,  \* IndicatorStory.current_sheet : Option<String>
    table,          \* rows shown by the IndicatorTableDelegate
    total_rows,     \* ResultTableDelegate.total_rows
    sub_rows,       \* ResultTableDelegate.sub_rows
    notes,          \* notifications pushed by the last handler
    events,         \* events emitted by the last handler
    alive,          \* FALSE once a handler has panicked
    last_op,        \* history: the last handler run and its input
    exporting,      \* rows held by an export task awaiting the save dialog
    file,           \* rows of the exported workbook, <<>> while there is none
    details,        \* sub_items_panel: <<>> for None, else <<rows of its delegate>>
    pf              \* state of the stand-alone prefixing run (SpecPrefix)

vars == <<sheets, excel_data, labor, material, machine, current_sheet, table,
          total_rows, sub_rows, notes, events, alive, last_op, exporting, file, details, pf>>

----------------------------------------------------------------------------
(* Bounds *)

MaxSheets  == 3     \* worksheets in an imported workbook
MaxRows    == 2     \* rows below the header of a worksheet (rich bodies)
MaxRefRows == 2     \* rows below the headers of a reference workbook, in total
MaxCodeLen == 2     \* characters of a raw code handed to the prefixing rule
MaxPad     == 2     \* spaces on either side of a text handed to the classifier
MaxExports == 1     \* save dialogs open at once

----------------------------------------------------------------------------
(* Text *)

Digits == <<"0", "1", "2", "3", "4", "5", "6", "7", "8", "9">>

IsDigit(c) == \E i \in 1..10 : Digits[i] = c

DigitVal(c) == (CHOOSE i \in 1..10 : Digits[i] = c) - 1

IsSpace(c) == c = " "

RECURSIVE TrimStart(_)
TrimStart(s) ==
    IF s # <<>> /\ IsSpace(Head(s)) THEN TrimStart(Tail(s)) ELSE s

RECURSIVE TrimEnd(_)
TrimEnd(s) ==
    IF s # <<>> /\ IsSpace(s[Len(s)]) THEN TrimEnd(SubSeq(s, 1, Len(s) - 1)) ELSE s

Trim(s) == TrimEnd(TrimStart(s))

StartsWith(s, c) == s # <<>> /\ Head(s) = c

RECURSIVE ToDigits(_)
ToDigits(n) ==
    IF n < 10 THEN <<Digits[n + 1]>>
    ELSE ToDigits(n \div 10) \o <<Digits[(n % 10) + 1]>>

\* format!("{:.2}", x) for an integer-valued x
Fmt2(n) == ToDigits(n) \o <<".", "0", "0">>

\* format!("{}", x)
FmtInt(n) == ToDigits(n)

\* str::contains(' ')
contains_space(s) == \E i \in 1..Len(s) : s[i] = " "

\* str::parse::<f64>().is_ok() on texts of digits, ".", " " and letters:
\* digits with at most one ".", at least one digit
is_f64(text) ==
    /\ \A i \in 1..Len(text) : IsDigit(text[i]) \/ text[i] = "."
    /\ \E i \in 1..Len(text) : IsDigit(text[i])
    /\ Cardinality({ i \in 1..Len(text) : text[i] = "." }) <= 1

RECURSIVE digits_value(_, _)
digits_value(ds, acc) ==
    IF ds = <<>> THEN acc ELSE digits_value(Tail(ds), 10 * acc + DigitVal(Head(ds)))

\* the value of a text that parses as f64 and has at most two decimals, in
\* hundredths
parse_f64(text) ==
    LET dot  == IF \E i \in 1..Len(text) : text[i] = "."
                THEN CHOOSE i \in 1..Len(text) : text[i] = "." ELSE Len(text) + 1
        int  == SubSeq(text, 1, dot - 1)
        frac == SubSeq(text, dot + 1, Len(text))
        two  == SubSeq(frac \o <<"0", "0">>, 1, 2)
    IN 100 * digits_value(int, 0) + digits_value(two, 0)

\* format!("{:.2}", a * b) for a and b in hundredths; ties go to the even
\* digit
fmt2_product(a, b) ==
    LET p == a * b
        q == p \div 100
        r == p % 100
        h == IF r > 50 \/ (r = 50 /\ q % 2 = 1) THEN q + 1 ELSE q
    IN ToDigits(h \div 100) \o <<".">> \o <<Digits[((h % 100) \div 10) + 1]>>
                            \o <<Digits[(h % 10) + 1]>>

\* code point of a character token; str::cmp orders by these
CodePoint(c) ==
    CASE c = " " -> 32
      [] c = "." -> 46
      [] IsDigit(c) -> 48 + DigitVal(c)
      [] c = "A" -> 65
      [] c = "B" -> 66
      [] c = "C" -> 67
      [] c = "D" -> 68
      [] c = "E" -> 69
      [] c = "L" -> 76
      [] c = "M" -> 77
      [] c = "a" -> 97
      [] c = "b" -> 98
      [] c = "c" -> 99
      [] c = "d" -> 100
      [] c = "x" -> 120
      [] c = "y" -> 121
      [] c = "z" -> 122
      [] c = "jiao"  -> 20132
      [] c = "gong"  -> 24037
      [] c = "cheng" -> 31243
      [] c = "lu"    -> 36335
      [] c = "tong"  -> 36890
      [] c = "dao"   -> 36947
      [] OTHER -> 20000

RECURSIVE StrLess(_, _)
StrLess(s, t) ==
    IF t = <<>> THEN FALSE
    ELSE IF s = <<>> THEN TRUE
    ELSE IF CodePoint(Head(s)) # CodePoint(Head(t))
         THEN CodePoint(Head(s)) < CodePoint(Head(t))
    ELSE StrLess(Tail(s), Tail(t))

----------------------------------------------------------------------------
(* Category *)

LaborMarker    == <<"ren", "gong", "lei", "bie">>
MaterialMarker == <<"cai", "liao", "lei", "bie">>
MachineMarker  == <<"ji", "xie", "lei", "bie">>

Category == {"Labor", "Material", "Machine", "None"}

prefix(cat) ==
    CASE cat = "Labor"    -> <<"L">>
      [] cat = "Material" -> <<"M">>
      [] cat = "Machine"  -> <<"E">>
      [] cat = "None"     -> <<>>

\* Option<Category> as a sequence of no or one element
from_type_column(text) ==
    CASE Trim(text) = LaborMarker    -> <<"Labor">>
      [] Trim(text) = MaterialMarker -> <<"Material">>
      [] Trim(text) = MachineMarker  -> <<"Machine">>
      [] OTHER                       -> <<>>

to_string(cat) ==
    CASE cat = "Labor"    -> "labor"
      [] cat = "Material" -> "material"
      [] cat = "Machine"  -> "machine"
      [] cat = "None"     -> "none"

----------------------------------------------------------------------------
(* Imported workbooks.                                                     *)
(* A worksheet is [name, header, col2, above, rows]: header says whether   *)
(* some row holds all seven required column names; col2 names the column   *)
(* that the header row puts at column index 2 ("desc" in the layout of     *)
(* required_columns); above are the rows above the header row and rows the *)
(* rows below it, each [desc, code, qty] by column name, with the four     *)
(* cells that are not modelled blank.                                      *)

Row(desc, code, qty) == [desc |-> desc, code |-> code, qty |-> qty]

MarkerRows ==
    { Row(m, <<>>, <<>>) : m \in {LaborMarker, MaterialMarker, MachineMarker} }

ItemRows ==
    { Row(<<"d">>, <<"1">>, <<"2">>), Row(<<"d">>, <<"1">>, <<"3", "x">>),
      Row(<<"d">>, <<"1">>, <<>>), Row(<<"d">>, <<"M", "1">>, <<"2">>) }

BlankRow == Row(<<" ">>, <<>>, <<>>)

RowAlphabet == MarkerRows \cup ItemRows \cup {BlankRow}

SeqsUpTo(S, n) == UNION { [1..k -> S] : k \in 0..n }

SheetNames == { <<"b", " ", "x">>, <<"a">>, <<"b", " ", "z">> }

\* one worksheet with up to MaxRows arbitrary rows
RichSheets ==
    { [name |-> <<"b", " ", "x">>, header |-> TRUE, col2 |-> "desc", above |-> <<>>,
       rows |-> r] : r \in SeqsUpTo(RowAlphabet, MaxRows) }

\* worksheets of the many-sheet workbooks: a header row followed by two
\* item rows under any of the names, or a worksheet without a header row
ThinRows == <<Row(<<"d">>, <<"1">>, <<"2">>), Row(<<"d">>, <<"1">>, <<"2">>)>>

ThinSheets ==
    { [name |-> n, header |-> TRUE, col2 |-> "desc", above |-> <<>>,
       rows |-> ThinRows] : n \in SheetNames }
    \cup { [name |-> <<"c">>, header |-> FALSE, col2 |-> "desc", above |-> <<>>,
            rows |-> <<>>] }

\* worksheets named by engineering type and part
NamedSheets ==
    { [name |-> n, header |-> TRUE, col2 |-> "desc", above |-> <<>>, rows |-> ThinRows] :
        n \in { <<"dao", "lu", "gong", "cheng", " ", "A">>,
                <<"jiao", "tong", "gong", "cheng", " ", "B">>,
                <<"dao", "lu", "gong", "cheng", " ", "C">> } }

\* one worksheet whose header row puts the description or the code at column
\* index 2, with or without a row above the header row
LayoutRows ==
    SeqsUpTo({ Row(LaborMarker, <<>>, <<>>), Row(<<"d">>, <<"1">>, <<"2">>),
               Row(<<"e">>, <<>>, <<"3">>) }, MaxRows)
    \cup { << Row(LaborMarker, <<>>, <<>>), Row(MaterialMarker, <<>>, <<>>),
              Row(<<"d">>, <<"1">>, <<"2">>) >> }

LayoutSheets ==
    { [name |-> <<"a">>, header |-> TRUE, col2 |-> c, above |-> a, rows |-> r] :
        c \in {"desc", "code"},
        a \in { <<>>, <<Row(<<"d">>, <<"1">>, <<"2">>)>>, <<Row(LaborMarker, <<>>, <<>>)>> },
        r \in LayoutRows }

\* two worksheets, each without a header row, or with one and a labor item
\* or an item under no marker
PairSheets(name) ==
    { [name |-> name, header |-> FALSE, col2 |-> "desc", above |-> <<>>, rows |-> <<>>] }
    \cup { [name |-> name, header |-> TRUE, col2 |-> "desc", above |-> <<>>, rows |-> r] :
             r \in { <<Row(LaborMarker, <<>>, <<>>), Row(<<"d">>, <<"1">>, <<"2">>)>>,
                     <<Row(<<"d">>, <<"1">>, <<"2">>)>> } }

\* calamine hands over the sheet names of workbook.xml as they are listed
RichBooks == { <<ws>> : ws \in RichSheets }

ThinBooks == SeqsUpTo(ThinSheets, MaxSheets)

NamedBooks == SeqsUpTo(NamedSheets, MaxSheets)

\* a workbook of two worksheets of one group: a labor item, and an item
\* under no marker
EditSheets ==
    { [name |-> <<"A", " ", "x">>, header |-> TRUE, col2 |-> "desc", above |-> <<>>,
       rows |-> <<Row(LaborMarker, <<>>, <<>>), Row(<<"d">>, <<"1">>, <<"2">>)>>],
      [name |-> <<"A", " ", "y">>, header |-> TRUE, col2 |-> "desc", above |-> <<>>,
       rows |-> <<Row(<<"d">>, <<"1">>, <<"3">>)>>] }

EditBooks ==
    { << [name |-> <<"A", " ", "x">>, header |-> TRUE, col2 |-> "desc", above |-> <<>>,
          rows |-> <<Row(LaborMarker, <<>>, <<>>), Row(<<"d">>, <<"1">>, <<"2">>)>>],
         [name |-> <<"A", " ", "y">>, header |-> TRUE, col2 |-> "desc", above |-> <<>>,
          rows |-> <<Row(<<"d">>, <<"1">>, <<"3">>)>>] >> }

\* five worksheets of four engineering types, as a workbook lists them
TypeNames ==
    << <<"D", " ", "x">>, <<"A", " ", "x">>, <<"B", " ", "x">>, <<"A", " ", "y">>,
       <<"C", " ", "x">> >>

TypeSheets ==
    { [name |-> TypeNames[i], header |-> TRUE, col2 |-> "desc", above |-> <<>>,
       rows |-> ThinRows] : i \in 1..Len(TypeNames) }

\* the workbooks that hold some of the five worksheets, in that order
TypeBooks ==
    { [ k \in 1..Cardinality(S) |->
          [name |-> TypeNames[CHOOSE i \in S : Cardinality({ j \in S : j <= i }) = k],
           header |-> TRUE, col2 |-> "desc", above |-> <<>>, rows |-> ThinRows] ] :
        S \in SUBSET (1..Len(TypeNames)) }

\* a row of a worksheet whose header row names the quantity column twice:
\* qty is the cell under the first of the two, qty2 the cell under the second
TwinRow(desc, code, qty, qty2) == [desc |-> desc, code |-> code, qty |-> qty, qty2 |-> qty2]

TwinRowAlphabet ==
    { TwinRow(LaborMarker, <<>>, <<>>, <<>>), TwinRow(<<"d">>, <<"1">>, <<"2">>, <<"3">>),
      TwinRow(<<"d">>, <<"1">>, <<"2">>, <<"2">>), TwinRow(<<"e">>, <<>>, <<"3">>, <<>>) }

TwinSheets ==
    { [name |-> <<"a">>, header |-> TRUE, col2 |-> "desc", above |-> <<>>, rows |-> r] :
        r \in SeqsUpTo(TwinRowAlphabet, MaxRows) }

TwinBooks == { <<ws>> : ws \in TwinSheets }

\* worksheet bodies for the drill-down: a labor item; material before labor;
\* a labor item without code; a labor item with and one without code; an
\* item under no marker; one item of each category
DetailBodies ==
    { <<Row(LaborMarker, <<>>, <<>>), Row(<<"d">>, <<"1">>, <<"2">>)>>,
      <<Row(MaterialMarker, <<>>, <<>>), Row(<<"d">>, <<"1">>, <<"2">>),
        Row(LaborMarker, <<>>, <<>>), Row(<<"d">>, <<"1">>, <<"3">>)>>,
      <<Row(LaborMarker, <<>>, <<>>), Row(<<"e">>, <<>>, <<"3">>)>>,
      <<Row(LaborMarker, <<>>, <<>>), Row(<<"d">>, <<"1">>, <<"2">>),
        Row(<<"e">>, <<>>, <<"3">>)>>,
      <<Row(<<"d">>, <<"1">>, <<"2">>)>>,
      <<Row(LaborMarker, <<>>, <<>>), Row(<<"d">>, <<"1">>, <<"2">>),
        Row(MaterialMarker, <<>>, <<>>), Row(<<"d">>, <<"1">>, <<"2">>),
        Row(MachineMarker, <<>>, <<>>), Row(<<"d">>, <<"1">>, <<"2">>)>> }

DetailSheet(name, rows) ==
    [name |-> name, header |-> TRUE, col2 |-> "desc", above |-> <<>>, rows |-> rows]

\* one worksheet named "A x", "B x" or "c", or the worksheets "A x" and
\* "B x" in either order
DetailBooks ==
    { <<DetailSheet(n, r)>> : n \in { <<"A", " ", "x">>, <<"B", " ", "x">>, <<"c">> },
                              r \in DetailBodies }
    \cup { <<DetailSheet(n[1], r1), DetailSheet(n[2], r2)>> :
             n \in { << <<"A", " ", "x">>, <<"B", " ", "x">> >>,
                     << <<"B", " ", "x">>, <<"A", " ", "x">> >> },
             r1 \in { <<Row(LaborMarker, <<>>, <<>>), Row(<<"d">>, <<"1">>, <<"2">>)>> },
             r2 \in { <<Row(LaborMarker, <<>>, <<>>), Row(<<"d">>, <<"1">>, <<"3">>)>> } }

LayoutBooks ==
    { <<ws>> : ws \in LayoutSheets }
    \cup { <<w1, w2>> : w1 \in PairSheets(<<"a">>), w2 \in PairSheets(<<"b", " ", "x">>) }

\* Xlsx::worksheet_range(name): the first sheet of that name
worksheet_range(wb, name) ==
    wb[CHOOSE i \in 1..Len(wb) :
          wb[i].name = name /\ \A j \in 1..(i - 1) : wb[j].name # name]

----------------------------------------------------------------------------
(* load_excel *)

\* rowid given to an INSERT into a table with INTEGER PRIMARY KEY
NextRowid(rows) ==
    IF rows = <<>> THEN 1
    ELSE 1 + (CHOOSE m \in { rows[i].id : i \in 1..Len(rows) } :
                 \A i \in 1..Len(rows) : rows[i].id <= m)

\* the category a row switches to, "NotMarker" for every other row
MarkerOf(cell) ==
    CASE Trim(cell) = LaborMarker    -> "Labor"
      [] Trim(cell) = MaterialMarker -> "Material"
      [] Trim(cell) = MachineMarker  -> "Machine"
      [] OTHER                       -> "NotMarker"

\* the prefix put in front of every code
PrefixCode_unconditional(cat, code) == prefix(cat) \o code

PrefixCode(cat, code) ==
    IF ~StartsWith(code, "L") /\ ~StartsWith(code, "M") /\ ~StartsWith(code, "E")
    THEN prefix(cat) \o code
    ELSE code

\* INSERT INTO sheets (name) VALUES (?), its result dropped; the UNIQUE
\* constraint makes the statement fail and leaves last_insert_rowid alone
InsertSheet(tx, name) ==
    IF \E i \in 1..Len(tx.sheets) : tx.sheets[i].name = name
    THEN tx
    ELSE LET id == NextRowid(tx.sheets)
         IN [tx EXCEPT !.sheets = Append(@, [id |-> id, name |-> name]),
                       !.rowid = id]

InsertData(tx, sheet_id, desc, code, qty, cat) ==
    LET id == NextRowid(tx.data)
    IN [tx EXCEPT !.data = Append(@, [id |-> id, sheet_id |-> sheet_id,
                                      code |-> code, desc |-> desc, qty |-> qty,
                                      category |-> to_string(cat)]),
                  !.rowid = id]

RECURSIVE ImportRows(_, _, _, _, _)
ImportRows(rows, col2, sheet_id, current_category, tx) ==
    IF rows = <<>> THEN tx
    ELSE
    LET row  == Head(rows)
        mk   == MarkerOf(row[col2])
        desc == Trim(row.desc)
        code == Trim(row.code)
        qty  == Trim(row.qty)
        valid_columns ==
            Cardinality({ c \in {"desc", "code", "qty"} : Trim(row[c]) # <<>> })
    IN  IF mk # "NotMarker"
        THEN ImportRows(Tail(rows), col2, sheet_id, mk, tx)
        ELSE IF valid_columns > 0
        THEN ImportRows(Tail(rows), col2, sheet_id, current_category,
                 InsertData(tx, sheet_id, desc,
                     IF code # <<>> THEN PrefixCode(current_category, code) ELSE code,
                     qty, current_category))
        ELSE ImportRows(Tail(rows), col2, sheet_id, current_category, tx)
\* the sheet loop of a transaction that reads each worksheet from its top row
RECURSIVE ImportSheets_from_top(_, _, _)
ImportSheets_from_top(wb, i, tx) ==
    IF i > Len(wb) THEN tx
    ELSE
    LET sheet_name == wb[i].name
        range      == worksheet_range(wb, sheet_name)
    IN  IF range.header
        THEN LET tx1 == InsertSheet(tx, sheet_name)
                 sheet_id == tx1.rowid
                 tx2 == ImportRows(range.above \o range.rows, range.col2, sheet_id,
                                   "None", tx1)
             IN ImportSheets_from_top(wb, i + 1, [tx2 EXCEPT !.success = TRUE])
        ELSE ImportSheets_from_top(wb, i + 1, tx)

RECURSIVE ImportSheets(_, _, _)
ImportSheets(wb, i, tx) ==
    IF i > Len(wb) THEN tx
    ELSE
    LET sheet_name == wb[i].name
        range      == worksheet_range(wb, sheet_name)
    IN  IF range.header
        THEN LET tx1 == InsertSheet(tx, sheet_name)
                 sheet_id == tx1.rowid
                 tx2 == ImportRows(range.rows, range.col2, sheet_id, "None", tx1)
             IN ImportSheets(wb, i + 1, [tx2 EXCEPT !.success = TRUE])
        ELSE ImportSheets(wb, i + 1, tx)

\* a transaction that keeps the stored rows and adds the imported ones
ImportTx_merging(wb) ==
    ImportSheets(wb, 1, [sheets |-> sheets, data |-> excel_data, rowid |-> 0,
                         success |-> FALSE])

\* the transaction of load_excel up to the test of success: both tables
\* emptied, then every worksheet imported; a fresh connection reports 0 as
\* last_insert_rowid
ImportTx(wb) ==
    ImportSheets(wb, 1, [sheets |-> <<>>, data |-> <<>>, rowid |-> 0, success |-> FALSE])

----------------------------------------------------------------------------
(* update_data *)

\* instr(name, ' ')
instr_space(name) ==
    IF \E i \in 1..Len(name) : name[i] = " "
    THEN CHOOSE i \in 1..Len(name) : name[i] = " " /\ \A j \in 1..(i - 1) : name[j] # " "
    ELSE 0

\* the column "type" of the sheets query
sheet_type(name) ==
    IF instr_space(name) > 0 THEN SubSeq(name, 1, instr_space(name) - 1) ELSE name

\* the column "short_name" of the sheets query
sheet_short_name(name) ==
    IF instr_space(name) > 0 THEN SubSeq(name, instr_space(name) + 1, Len(name)) ELSE <<>>

\* the keys in descending order
RECURSIVE sorted_keys_descending(_)
sorted_keys_descending(S) ==
    IF S = {} THEN <<>>
    ELSE LET greatest == CHOOSE k \in S : \A o \in S \ {k} : StrLess(o, k)
         IN <<greatest>> \o sorted_keys_descending(S \ {greatest})

\* type_keys.sort() over the keys of sheet_groups
RECURSIVE sorted_keys(_)
sorted_keys(S) ==
    IF S = {} THEN <<>>
    ELSE LET least == CHOOSE k \in S : \A o \in S \ {k} : StrLess(k, o)
         IN <<least>> \o sorted_keys(S \ {least})

\* substr(x, 2)
substr2(x) == IF x = <<>> THEN <<>> ELSE Tail(x)

\* CAST(text AS FLOAT): leading spaces skipped, then the longest numeric
\* prefix, 0 when there is none
RECURSIVE digit_prefix(_, _)
digit_prefix(s, acc) ==
    IF s # <<>> /\ IsDigit(Head(s))
    THEN digit_prefix(Tail(s), 10 * acc + DigitVal(Head(s)))
    ELSE acc

cast_float(text) == digit_prefix(TrimStart(text), 0)

NULL == [code |-> <<"NULL">>, factor |-> -1]

\* the rows a LEFT JOIN pairs with one excel_data row
left_join(tbl, key) ==
    LET hits == { r \in tbl : r.code = key }
    IN IF hits = {} THEN {NULL} ELSE hits

\* a factor taken from whichever table has the code
real_carbon_factor_any_kind(category, l, m, mc) ==
    IF l.factor # NULL.factor THEN l.factor
    ELSE IF m.factor # NULL.factor THEN m.factor
    ELSE IF mc.factor # NULL.factor THEN mc.factor
    ELSE 1

real_carbon_factor(category, l, m, mc) ==
    CASE category = "labor"    /\ l.factor  # NULL.factor -> l.factor
      [] category = "material" /\ m.factor  # NULL.factor -> m.factor
      [] category = "machine"  /\ mc.factor # NULL.factor -> mc.factor
      [] OTHER -> 1

RECURSIVE SetToSeq(_)
SetToSeq(S) ==
    IF S = {} THEN <<>>
    ELSE LET x == CHOOSE x \in S : TRUE IN <<x>> \o SetToSeq(S \ {x})

\* the rows of excel_data e LEFT JOIN labor LEFT JOIN material LEFT JOIN
\* machine for one excel_data row, each with its real_carbon_factor
joined(e, lab, mat, mac) ==
    LET combos == SetToSeq(left_join(lab, substr2(e.code)) \X left_join(mat, substr2(e.code))
                               \X left_join(mac, substr2(e.code)))
    IN [ i \in 1..Len(combos) |->
           [e |-> e,
            factor |-> real_carbon_factor(e.category, combos[i][1], combos[i][2], combos[i][3])] ]

RECURSIVE combined_data(_, _, _, _, _)
combined_data(data, sheet_id, lab, mat, mac) ==
    IF data = <<>> THEN <<>>
    ELSE (IF Head(data).sheet_id = sheet_id
          THEN joined(Head(data), lab, mat, mac) ELSE <<>>)
         \o combined_data(Tail(data), sheet_id, lab, mat, mac)

RECURSIVE sum_emission(_, _)
sum_emission(rows, category) ==
    IF rows = <<>> THEN 0
    ELSE (IF Head(rows).e.category = category /\ Head(rows).e.qty # <<>>
          THEN cast_float(Head(rows).e.qty) * Head(rows).factor ELSE 0)
         + sum_emission(Tail(rows), category)

Placeholder == <<"you", "jian", "bian", "ji">>

\* a type header row labelled with the Arabic numeral of its position
type_header_row_arabic(type_index, type_key) ==
    [seq |-> FmtInt(type_index),
     name |-> type_key, unit |-> <<>>, volume |-> <<>>, index |-> <<>>,
     labor |-> <<>>, material |-> <<>>, machine |-> <<>>, subtotal |-> <<>>]

type_header_row(type_index, type_key) ==
    [seq |-> CASE type_index = 1 -> <<"yi">>
               [] type_index = 2 -> <<"er">>
               [] type_index = 3 -> <<"san">>
               [] OTHER -> FmtInt(type_index),
     name |-> type_key, unit |-> <<>>, volume |-> <<>>, index |-> <<>>,
     labor |-> <<>>, material |-> <<>>, machine |-> <<>>, subtotal |-> <<>>]

sheet_row(sub_index, short_name, cd) ==
    LET total_labor    == sum_emission(cd, "labor")
        total_material == sum_emission(cd, "material")
        total_machine  == sum_emission(cd, "machine")
        total_emission == total_labor + total_material + total_machine
    IN [seq |-> FmtInt(sub_index), name |-> Trim(short_name), unit |-> <<"m", "2">>,
        volume |-> Placeholder, index |-> <<>>,
        labor |-> Fmt2(total_labor), material |-> Fmt2(total_material),
        machine |-> Fmt2(total_machine), subtotal |-> Fmt2(total_emission)]

from_string(s) ==
    CASE s = "labor"    -> "Labor"
      [] s = "material" -> "Material"
      [] s = "machine"  -> "Machine"
      [] OTHER          -> "None"

sub_item_rows(cd) ==
    [ i \in 1..Len(cd) |->
        [seq |-> <<>>, code |-> cd[i].e.code, desc |-> cd[i].e.desc, unit |-> <<>>,
         qty |-> cd[i].e.qty, factor |-> FmtInt(cd[i].factor), emission |-> <<>>,
         category |-> from_string(cd[i].e.category)] ]

\* the rows pushed for the sheets of one group, from the sub_index-th on
RECURSIVE group_rows(_, _, _, _, _, _)
group_rows(group, sub_index, data, lab, mat, mac) ==
    IF sub_index > Len(group) THEN [total |-> <<>>, sub |-> <<>>]
    ELSE LET sh   == group[sub_index]
             cd   == combined_data(data, sh.id, lab, mat, mac)
             rest == group_rows(group, sub_index + 1, data, lab, mat, mac)
         IN [total |-> <<sheet_row(sub_index, sheet_short_name(sh.name), cd)>> \o rest.total,
             sub   |-> sub_item_rows(cd) \o rest.sub]

\* the rows pushed for the groups from the type_index-th key on
RECURSIVE type_rows(_, _, _, _, _, _, _)
type_rows(type_keys, type_index, sheet_results, data, lab, mat, mac) ==
    IF type_index > Len(type_keys) THEN [total |-> <<>>, sub |-> <<>>]
    ELSE LET type_key == type_keys[type_index]
             InGroup(sh) == sheet_type(sh.name) = type_key
             group == SelectSeq(sheet_results, InGroup)
             mine  == group_rows(group, 1, data, lab, mat, mac)
             rest  == type_rows(type_keys, type_index + 1, sheet_results, data, lab, mat, mac)
         IN [total |-> <<type_header_row(type_index, type_key)>> \o mine.total \o rest.total,
             sub   |-> mine.sub \o rest.sub]

\* an aggregation that closes the rows with a row of its own
update_data_closing(sheet_results, data, lab, mat, mac) ==
    LET type_keys ==
            sorted_keys({ sheet_type(sheet_results[i].name) : i \in 1..Len(sheet_results) })
        rows == type_rows(type_keys, 1, sheet_results, data, lab, mat, mac)
    IN [total |-> rows.total \o <<type_header_row(Len(type_keys) + 1, <<>>)>>,
        sub   |-> rows.sub]

\* total_rows and sub_rows as a successful update_data leaves them
update_data(sheet_results, data, lab, mat, mac) ==
    LET type_keys ==
            sorted_keys({ sheet_type(sheet_results[i].name) : i \in 1..Len(sheet_results) })
    IN type_rows(type_keys, 1, sheet_results, data, lab, mat, mac)

----------------------------------------------------------------------------
(* Reference workbooks.                                                    *)
(* One worksheet per kind, [status, rows]: "missing" (worksheet_range      *)
(* fails or the range is empty), "noheader" (no row names all five         *)
(* columns), "ok" (rows are the rows below the header row, as [code,       *)
(* factor] cell texts).                                                    *)

Kinds == <<"labor", "material", "machine">>

RefRow(code, factor) == [code |-> code, factor |-> factor]

RefRowAlphabet ==
    { RefRow(<<"1">>, <<"5">>), RefRow(<<"1">>, <<>>), RefRow(<<>>, <<"5">>) }

RefSheets ==
    { [status |-> st, rows |-> <<>>] : st \in {"missing", "noheader"} }
    \cup { [status |-> "ok", rows |-> r] : r \in SeqsUpTo(RefRowAlphabet, MaxRefRows) }

RefBooks ==
    { rb \in [labor : RefSheets, material : RefSheets, machine : RefSheets] :
        Len(rb.labor.rows) + Len(rb.material.rows) + Len(rb.machine.rows) <= MaxRefRows }

\* the workbooks tried at the default path: three worksheets with header
\* rows, every row one code with one factor
AssetBooks ==
    { rb \in RefBooks :
        \A k \in 1..3 :
            /\ rb[Kinds[k]].status = "ok"
            /\ \A i \in 1..Len(rb[Kinds[k]].rows) :
                   rb[Kinds[k]].rows[i] = RefRow(<<"1">>, <<"5">>) }

----------------------------------------------------------------------------
(* load_resource_data *)

IsNumber(text) == text # <<>> /\ \A i \in 1..Len(text) : IsDigit(text[i])

\* c.to_string().parse::<f64>().ok().unwrap_or(1.0)
parse_factor(text) == IF IsNumber(text) THEN digit_prefix(text, 0) ELSE 1

\* an insert loop into a table without a key on the code
RECURSIVE insert_ref_rows_no_key(_, _)
insert_ref_rows_no_key(rows, acc) ==
    IF rows = <<>> THEN acc
    ELSE LET code == Head(rows).code
         IN IF code = <<>> THEN insert_ref_rows_no_key(Tail(rows), acc)
            ELSE insert_ref_rows_no_key(Tail(rows),
                     [acc EXCEPT !.tbl = @ \cup {[code |-> code,
                                                  factor |-> parse_factor(Head(rows).factor)]}])

\* the insert loop over the rows of one worksheet; a failed INSERT (the
\* code is already in the table) is unwrapped, which panics
RECURSIVE insert_ref_rows(_, _)
insert_ref_rows(rows, acc) ==
    IF rows = <<>> \/ acc.panicked THEN acc
    ELSE LET code == Head(rows).code
         IN IF code = <<>> THEN insert_ref_rows(Tail(rows), acc)
            ELSE IF \E r \in acc.tbl : r.code = code
            THEN [acc EXCEPT !.panicked = TRUE]
            ELSE insert_ref_rows(Tail(rows),
                     [acc EXCEPT !.tbl = @ \cup {[code |-> code,
                                                  factor |-> parse_factor(Head(rows).factor)]}])

\* the transaction of load_resource_data up to the test of success: the
\* three tables emptied, then reloaded kind by kind
RECURSIVE ReloadKinds(_, _, _)
ReloadKinds(rb, k, tx) ==
    IF k > Len(Kinds) \/ tx.panicked THEN tx
    ELSE LET ws == rb[Kinds[k]]
         IN IF ws.status = "ok"
            THEN LET r == insert_ref_rows(ws.rows, [tbl |-> {}, panicked |-> FALSE])
                 IN ReloadKinds(rb, k + 1,
                        [tx EXCEPT !.tables[Kinds[k]] = r.tbl,
                                   !.panicked = r.panicked,
                                   !.success = TRUE])
            ELSE ReloadKinds(rb, k + 1, tx)

ReloadTx(rb) ==
    ReloadKinds(rb, 1, [tables |-> [labor |-> {}, material |-> {}, machine |-> {}],
                        panicked |-> FALSE, success |-> FALSE])

----------------------------------------------------------------------------
(* Handlers *)

Note(type, msg) == [type |-> type, msg |-> msg]

Op(op, outcome, src) == [op |-> op, outcome |-> outcome, src |-> src]

\* the rows load_sheet_data returns; <<FALSE>> when the sheet is not stored
load_sheet_data(shs, data, sheet_name) ==
    IF \E i \in 1..Len(shs) : shs[i].name = sheet_name
    THEN LET sheet_id == shs[CHOOSE i \in 1..Len(shs) : shs[i].name = sheet_name].id
             OfSheet(e) == e.sheet_id = sheet_id
             found == SelectSeq(data, OfSheet)
         IN <<TRUE, [ i \in 1..Len(found) |->
                        [code |-> found[i].code, desc |-> found[i].desc, qty |-> found[i].qty] ]>>
    ELSE <<FALSE>>

\* a subscriber whose update_data opens the store before it clears the rows
Subscriber_open_first(shs, data, store_ok) ==
    LET rows == update_data(shs, data, labor, material, machine)
    IN /\ events' = <<"UpdateResultTable">>
       /\ total_rows' = IF store_ok THEN rows.total ELSE total_rows
       /\ sub_rows' = IF store_ok THEN rows.sub ELSE sub_rows

\* a subscriber that keeps the volumes of the rows whose names stay
Subscriber_keeping(shs, data, store_ok) ==
    LET rows == update_data(shs, data, labor, material, machine)
        kept == [ i \in 1..Len(rows.total) |->
                    IF i <= Len(total_rows) /\ total_rows[i].name = rows.total[i].name
                    THEN [rows.total[i] EXCEPT !.volume = total_rows[i].volume]
                    ELSE rows.total[i] ]
    IN /\ events' = <<"UpdateResultTable">>
       /\ total_rows' = IF store_ok THEN kept ELSE <<>>
       /\ sub_rows' = IF store_ok THEN rows.sub ELSE <<>>

\* a subscriber that aggregates the store as it was before the handler
Subscriber_stale(shs, data, store_ok) ==
    LET rows == update_data(sheets, excel_data, labor, material, machine)
    IN /\ events' = <<"UpdateResultTable">>
       /\ total_rows' = IF store_ok THEN rows.total ELSE <<>>
       /\ sub_rows' = IF store_ok THEN rows.sub ELSE <<>>

\* cx.emit(UpdateResultTable) and its subscriber, run when the emitting
\* handler returns: update_data clears both lists, and fills them if the
\* store can be opened
Subscriber(shs, data, store_ok) ==
    LET rows == update_data(shs, data, labor, material, machine)
    IN /\ events' = <<"UpdateResultTable">>
       /\ total_rows' = IF store_ok THEN rows.total ELSE <<>>
       /\ sub_rows' = IF store_ok THEN rows.sub ELSE <<>>

UpdateNotes(store_ok) == IF store_ok THEN <<>> ELSE <<Note("Error", "update_failed")>>

\* load_excel past a set success flag: commit, first sheet shown, emit
load_excel_committed(tx, wb, store_ok) ==
    /\ sheets' = tx.sheets
    /\ excel_data' = tx.data
    /\ current_sheet' = <<tx.sheets[1].name>>
    /\ table' = load_sheet_data(tx.sheets, tx.data, tx.sheets[1].name)[2]
    /\ Subscriber(tx.sheets, tx.data, store_ok)
    /\ notes' = <<Note("Success", "sheet_switched"), Note("Success", "import_ok")>>
                   \o UpdateNotes(store_ok)
    /\ last_op' = Op("load_excel", "committed", wb)

\* a dropped transaction whose DELETEs stay
load_excel_no_valid_data_deleting(wb) ==
    /\ notes' = <<Note("Error", "no_valid_sheet_data")>>
    /\ events' = <<>>
    /\ last_op' = Op("load_excel", "no_valid_sheet_data", wb)
    /\ sheets' = <<>>
    /\ excel_data' = <<>>
    /\ UNCHANGED <<current_sheet, table, total_rows, sub_rows>>

\* load_excel past a clear success flag: the transaction is dropped
load_excel_no_valid_data(wb) ==
    /\ notes' = <<Note("Error", "no_valid_sheet_data")>>
    /\ events' = <<>>
    /\ last_op' = Op("load_excel", "no_valid_sheet_data", wb)
    /\ UNCHANGED <<sheets, excel_data, current_sheet, table, total_rows, sub_rows>>

\* load_excel on a workbook that opens, with a store that opens
load_excel(wb, store_ok) ==
    /\ alive
    /\ LET tx == ImportTx(wb)
       IN IF tx.success
          THEN load_excel_committed(tx, wb, store_ok)
          ELSE load_excel_no_valid_data(wb)
    /\ UNCHANGED <<labor, material, machine, alive, exporting, file, details, pf>>

\* the worksheets as the row loop reads them when column_mapping.iter()
\* yields the column pick first among those named by the quantity header
column_choice(wb, pick) ==
    [ i \in 1..Len(wb) |->
        [wb[i] EXCEPT !.rows =
            [ k \in 1..Len(wb[i].rows) |->
                [desc |-> wb[i].rows[k].desc, code |-> wb[i].rows[k].code,
                 qty |-> wb[i].rows[k][pick]] ]] ]

\* load_excel on a workbook whose header rows name the quantity column
\* twice: the iteration order of the HashMap column_mapping decides which of
\* the two columns is read
load_excel_twin(wb, pick, store_ok) ==
    /\ alive
    /\ LET tx == ImportTx(column_choice(wb, pick))
       IN IF tx.success
          THEN load_excel_committed(tx, wb, store_ok)
          ELSE load_excel_no_valid_data(wb)
    /\ UNCHANGED <<labor, material, machine, alive, exporting, file, details, pf>>

\* load_excel on a file open_workbook rejects
load_excel_open_failed ==
    /\ alive
    /\ notes' = <<Note("Error", "open_excel_failed")>>
    /\ events' = <<>>
    /\ last_op' = Op("load_excel", "open_failed", <<>>)
    /\ UNCHANGED <<sheets, excel_data, labor, material, machine, current_sheet, table,
                   total_rows, sub_rows, alive, exporting, file, details, pf>>

\* load_excel when Connection::open fails
load_excel_db_failed ==
    /\ alive
    /\ notes' = <<Note("Error", "db_connect_failed")>>
    /\ events' = <<>>
    /\ last_op' = Op("load_excel", "db_failed", <<>>)
    /\ UNCHANGED <<sheets, excel_data, labor, material, machine, current_sheet, table,
                   total_rows, sub_rows, alive, exporting, file, details, pf>>

\* on_change_sheet: change_sheet, then UpdateResultTable
on_change_sheet(sheet_name, store_ok) ==
    /\ alive
    /\ LET got == load_sheet_data(sheets, excel_data, sheet_name)
       IN /\ table' = IF got[1] THEN got[2] ELSE table
          /\ notes' = <<IF got[1] THEN Note("Success", "sheet_switched")
                        ELSE Note("Error", "load_sheet_failed")>> \o UpdateNotes(store_ok)
          /\ last_op' = Op("change_sheet", IF got[1] THEN "shown" ELSE "failed",
                            [sheet |-> sheet_name, store |-> store_ok])
    /\ Subscriber(sheets, excel_data, store_ok)
    /\ UNCHANGED <<sheets, excel_data, labor, material, machine, current_sheet, alive, exporting, file, details, pf>>

\* what a reference workbook carries for one kind: the rows with a code
ref_rows_of(ws) ==
    IF ws.status = "ok"
    THEN { [code |-> ws.rows[i].code, factor |-> parse_factor(ws.rows[i].factor)] :
             i \in { j \in 1..Len(ws.rows) : ws.rows[j].code # <<>> } }
    ELSE {}

\* whether a worksheet lists some code on two rows
ref_repeats(ws) ==
    \E i, j \in 1..Len(ws.rows) :
        i < j /\ ws.rows[i].code # <<>> /\ ws.rows[i].code = ws.rows[j].code

\* what is recorded of a reference workbook
ref_digest(rb) ==
    [found   |-> \E k \in 1..3 : rb[Kinds[k]].status = "ok",
     repeats |-> \E k \in 1..3 : ref_repeats(rb[Kinds[k]]),
     rows    |-> [ k \in {"labor", "material", "machine"} |-> ref_rows_of(rb[k]) ]]

\* load_resource_data on a workbook that opens, with a store that opens
load_resource_data(rb) ==
    /\ alive
    /\ events' = <<>>
    /\ LET tx == ReloadTx(rb)
       IN IF tx.panicked
          THEN /\ alive' = FALSE
               /\ notes' = <<>>
               /\ last_op' = Op("load_resource_data", "panicked", ref_digest(rb))
               /\ UNCHANGED <<labor, material, machine>>
          ELSE IF tx.success
          THEN /\ labor' = tx.tables.labor
               /\ material' = tx.tables.material
               /\ machine' = tx.tables.machine
               /\ notes' = <<Note("Success", "ref_ok")>>
               /\ last_op' = Op("load_resource_data", "committed", ref_digest(rb))
               /\ UNCHANGED alive
          ELSE /\ notes' = <<Note("Error", "no_valid_ref_data")>>
               /\ last_op' = Op("load_resource_data", "no_valid_ref_data", ref_digest(rb))
               /\ UNCHANGED <<labor, material, machine, alive>>
    /\ UNCHANGED <<sheets, excel_data, current_sheet, table, total_rows, sub_rows, exporting, file, details, pf>>

load_resource_data_open_failed ==
    /\ alive
    /\ notes' = <<Note("Error", "open_ref_failed")>>
    /\ events' = <<>>
    /\ last_op' = Op("load_resource_data", "open_failed", <<>>)
    /\ UNCHANGED <<sheets, excel_data, labor, material, machine, current_sheet, table,
                   total_rows, sub_rows, alive, exporting, file, details, pf>>

load_resource_data_db_failed ==
    /\ alive
    /\ notes' = <<Note("Error", "db_connect_failed")>>
    /\ events' = <<>>
    /\ last_op' = Op("load_resource_data", "db_failed", <<>>)
    /\ UNCHANGED <<sheets, excel_data, labor, material, machine, current_sheet, table,
                   total_rows, sub_rows, alive, exporting, file, details, pf>>

\* the prefixing rule of load_excel applied to a raw code under a category
apply_prefix ==
    /\ pf.step = 0
    /\ pf' = [pf EXCEPT !.out = PrefixCode(pf.cat, pf.code), !.step = 1]
    /\ UNCHANGED <<sheets, excel_data, labor, material, machine, current_sheet, table,
                   total_rows, sub_rows, notes, events, alive, last_op,
                   exporting, file, details>>

\* Category::from_type_column called on a text
classify ==
    /\ pf.step = 0
    /\ pf' = [pf EXCEPT !.out = from_type_column(pf.text), !.step = 1]
    /\ UNCHANGED <<sheets, excel_data, labor, material, machine, current_sheet, table,
                   total_rows, sub_rows, notes, events, alive, last_op,
                   exporting, file, details>>

\* and called on the same text once more
classify_again ==
    /\ pf.step = 1
    /\ pf' = [pf EXCEPT !.again = from_type_column(pf.text), !.step = 2]
    /\ UNCHANGED <<sheets, excel_data, labor, material, machine, current_sheet, table,
                   total_rows, sub_rows, notes, events, alive, last_op,
                   exporting, file, details>>

\* the rule applied to the code it stored, under the same category
reapply_prefix ==
    /\ pf.step = 1
    /\ pf' = [pf EXCEPT !.again = PrefixCode(pf.cat, pf.out), !.step = 2]
    /\ UNCHANGED <<sheets, excel_data, labor, material, machine, current_sheet, table,
                   total_rows, sub_rows, notes, events, alive, last_op,
                   exporting, file, details>>

\* ResultTableDelegate::new: the names of the nine columns
columns ==
    << <<"xu", "hao">>, <<"xiang", "mu", "ming", "cheng">>, <<"dan", "wei">>,
       <<"gong", "cheng", "liang">>, <<"zong", "tan", "pai", "fang", "liang">>,
       <<"ren", "gong">>, <<"cai", "liao">>, <<"ji", "xie">>, <<"xiao", "ji">> >>

\* a category test that looks at the name alone
is_category_row_by_name(row) == ~contains_space(row.name)

\* render_td: whether the row is drawn as a category row
is_category_row(row) ==
    ~contains_space(row.name) /\ row.unit = <<>> /\ row.index = <<>>

\* render_td: the text of the cell in column col_ix (from 0)
render_td(row, col_ix) ==
    CASE col_ix = 0 -> row.seq
      [] col_ix = 1 -> row.name
      [] col_ix = 2 -> IF is_category_row(row) THEN <<>> ELSE row.unit
      [] col_ix = 3 -> IF is_category_row(row) THEN <<>> ELSE row.volume
      [] col_ix = 4 -> IF is_category_row(row) THEN <<>>
                       ELSE IF row.volume = <<>> \/ row.volume = Placeholder THEN <<"-">>
                       ELSE IF is_f64(row.volume) /\ is_f64(row.subtotal)
                            THEN fmt2_product(parse_f64(row.volume), parse_f64(row.subtotal))
                            ELSE <<"-">>
      [] col_ix = 5 -> IF is_category_row(row) THEN <<>> ELSE row.labor
      [] col_ix = 6 -> IF is_category_row(row) THEN <<>> ELSE row.material
      [] col_ix = 7 -> IF is_category_row(row) THEN <<>> ELSE row.machine
      [] col_ix = 8 -> IF is_category_row(row) THEN <<>> ELSE row.subtotal
      [] OTHER -> <<>>

\* the texts the volume dialog can be confirmed with
EditInputs == { <<>>, <<"4">>, <<"4", "x">> }

\* a confirmed dialog that takes every text
edit_volume_unchecked(row_ix, new_value) ==
    /\ alive
    /\ row_ix \in 1..Len(total_rows)
    /\ ~is_category_row(total_rows[row_ix])
    /\ total_rows' = [total_rows EXCEPT ![row_ix].volume = new_value]
    /\ notes' = <<>>
    /\ last_op' = Op("edit_volume", "accepted", [row |-> row_ix, text |-> new_value])
    /\ events' = <<>>
    /\ UNCHANGED <<sheets, excel_data, labor, material, machine, current_sheet, table,
                   sub_rows, alive, exporting, file, details, pf>>

\* right click on the volume cell of a row that is no category row, then
\* the dialog confirmed with new_value (button or on_ok)
edit_volume(row_ix, new_value) ==
    /\ alive
    /\ row_ix \in 1..Len(total_rows)
    /\ ~is_category_row(total_rows[row_ix])
    /\ IF new_value = <<>> \/ is_f64(new_value)
       THEN /\ total_rows' = [total_rows EXCEPT ![row_ix].volume = new_value]
            /\ notes' = <<>>
            /\ last_op' = Op("edit_volume", "accepted",
                             [row |-> row_ix, text |-> new_value])
       ELSE /\ total_rows' = total_rows
            /\ notes' = <<Note("Error", "invalid_number")>>
            /\ last_op' = Op("edit_volume", "rejected",
                             [row |-> row_ix, text |-> new_value])
    /\ events' = <<>>
    /\ UNCHANGED <<sheets, excel_data, labor, material, machine, current_sheet, table,
                   sub_rows, alive, exporting, file, details, pf>>

\* a data row of the export that writes the stored index field as the total
export_row_stored(row_data) ==
    LET is_category == ~contains_space(row_data.name) /\ row_data.unit = <<>>
    IN << row_data.seq, row_data.name,
          IF is_category THEN <<>> ELSE row_data.unit,
          IF is_category THEN <<>> ELSE row_data.volume,
          row_data.index,
          IF is_category THEN <<>> ELSE row_data.labor,
          IF is_category THEN <<>> ELSE row_data.material,
          IF is_category THEN <<>> ELSE row_data.machine,
          IF is_category THEN <<>> ELSE row_data.subtotal >>

\* export_results_to_excel: the data row written for one result row
export_row(row_data) ==
    LET is_category == ~contains_space(row_data.name) /\ row_data.unit = <<>>
        total ==
            IF is_category THEN <<>>
            ELSE IF row_data.volume = <<>> \/ row_data.volume = Placeholder THEN <<"-">>
            ELSE IF is_f64(row_data.volume) /\ is_f64(row_data.subtotal)
                 THEN fmt2_product(parse_f64(row_data.volume), parse_f64(row_data.subtotal))
                 ELSE <<"-">>
    IN << row_data.seq, row_data.name,
          IF is_category THEN <<>> ELSE row_data.unit,
          IF is_category THEN <<>> ELSE row_data.volume,
          total,
          IF is_category THEN <<>> ELSE row_data.labor,
          IF is_category THEN <<>> ELSE row_data.material,
          IF is_category THEN <<>> ELSE row_data.machine,
          IF is_category THEN <<>> ELSE row_data.subtotal >>

\* export_results_to_excel up to the save dialog: the rows are cloned, and
\* without rows nothing is asked
export_clicked ==
    /\ alive
    /\ Len(exporting) < MaxExports
    /\ IF total_rows = <<>>
       THEN /\ notes' = <<Note("Error", "nothing_to_export")>>
            /\ exporting' = exporting
            /\ last_op' = Op("export", "empty", <<>>)
       ELSE /\ notes' = <<>>
            /\ exporting' = Append(exporting, total_rows)
            /\ last_op' = Op("export", "asked", total_rows)
    /\ events' = <<>>
    /\ UNCHANGED <<sheets, excel_data, labor, material, machine, current_sheet, table,
                   total_rows, sub_rows, alive, file, details, pf>>

\* a save that writes the result rows as they are when the dialog returns
export_saved_live ==
    /\ alive
    /\ exporting # <<>>
    /\ file' = <<columns>> \o [ i \in 1..Len(total_rows) |-> export_row(total_rows[i]) ]
    /\ last_op' = Op("export", "saved", Head(exporting))
    /\ exporting' = Tail(exporting)
    /\ notes' = <<Note("Success", "exported")>>
    /\ events' = <<>>
    /\ UNCHANGED <<sheets, excel_data, labor, material, machine, current_sheet, table,
                   total_rows, sub_rows, alive, details, pf>>

\* the save dialog answered with a path: header row, data rows, close
export_saved ==
    /\ alive
    /\ exporting # <<>>
    /\ LET result_rows == Head(exporting)
       IN /\ file' = <<columns>> \o [ i \in 1..Len(result_rows) |-> export_row(result_rows[i]) ]
          /\ last_op' = Op("export", "saved", result_rows)
    /\ exporting' = Tail(exporting)
    /\ notes' = <<Note("Success", "exported")>>
    /\ events' = <<>>
    /\ UNCHANGED <<sheets, excel_data, labor, material, machine, current_sheet, table,
                   total_rows, sub_rows, alive, details, pf>>

\* the save dialog answered with a path that cannot be written: what lies
\* at the path afterwards is the file system's choice
export_write_failed ==
    /\ alive
    /\ exporting # <<>>
    /\ file' \in {file, <<>>}
    /\ last_op' = Op("export", "write_failed", Head(exporting))
    /\ exporting' = Tail(exporting)
    /\ notes' = <<Note("Error", "export_failed")>>
    /\ events' = <<>>
    /\ UNCHANGED <<sheets, excel_data, labor, material, machine, current_sheet, table,
                   total_rows, sub_rows, alive, details, pf>>

\* the save dialog dismissed
export_cancelled ==
    /\ alive
    /\ exporting # <<>>
    /\ exporting' = Tail(exporting)
    /\ last_op' = Op("export", "cancelled", Head(exporting))
    /\ notes' = <<>>
    /\ events' = <<>>
    /\ UNCHANGED <<sheets, excel_data, labor, material, machine, current_sheet, table,
                   total_rows, sub_rows, alive, file, details, pf>>

\* SubItemRow::default()
default_sub_item ==
    [seq |-> <<>>, code |-> <<>>, desc |-> <<>>, unit |-> <<>>, qty |-> <<>>,
     factor |-> <<>>, emission |-> <<>>, category |-> "None"]

\* format!("{:.4}", x) for x in hundredths
Fmt4(h) ==
    ToDigits(h \div 100) \o <<".">> \o <<Digits[((h % 100) \div 10) + 1]>>
                         \o <<Digits[(h % 10) + 1]>> \o <<"0", "0">>

\* name LIKE '%类别'
like_category(desc) ==
    Len(desc) >= 2 /\ desc[Len(desc) - 1] = "lei" /\ desc[Len(desc)] = "bie"

\* the header text of a category of the drill-down query
header_text(category_name) ==
    CASE category_name = "labor"    -> LaborMarker
      [] category_name = "material" -> MaterialMarker
      [] category_name = "machine"  -> MachineMarker

\* load_sub_items_for_sheet: the rows of the item query of one category,
\* ORDER BY e.id, renumbered
category_items(data, sheet_id, category_name, lab, mat, mac) ==
    LET Mine(e) == /\ e.sheet_id = sheet_id
                   /\ e.category = category_name
                   /\ ~like_category(e.desc)
        found == SelectSeq(data, Mine)
        cd    == combined_data(found, sheet_id, lab, mat, mac)
    IN [ i \in 1..Len(cd) |->
           [seq |-> FmtInt(i), code |-> cd[i].e.code, desc |-> cd[i].e.desc,
            unit |-> <<>>, qty |-> cd[i].e.qty, factor |-> FmtInt(cd[i].factor),
            emission |-> <<>>, category |-> from_string(category_name)] ]

\* load_sub_items_for_sheet: sub_items, built category by category from the
\* k-th of labor, material, machine on
RECURSIVE sub_items_from(_, _, _, _, _, _)
sub_items_from(k, data, sheet_id, lab, mat, mac) ==
    IF k > Len(Kinds) THEN <<>>
    ELSE LET category_name == Kinds[k]
             present == \E i \in 1..Len(data) :
                           data[i].sheet_id = sheet_id /\ data[i].category = category_name
             header  == [default_sub_item EXCEPT !.desc = header_text(category_name),
                                                 !.category = from_string(category_name)]
         IN (IF present
             THEN <<header>> \o category_items(data, sheet_id, category_name, lab, mat, mac)
                  \o (IF category_name # "machine" THEN <<default_sub_item>> ELSE <<>>)
             ELSE <<>>)
            \o sub_items_from(k + 1, data, sheet_id, lab, mat, mac)

\* set_rows, first round: the groups (category, rows) of the rows that have
\* a code, cut at the header rows
RECURSIVE processed_rows(_, _, _)
processed_rows(result_rows, current_category, current_rows) ==
    IF result_rows = <<>>
    THEN (IF current_rows # <<>> THEN << <<current_category, current_rows>> >> ELSE <<>>)
    ELSE LET row == Head(result_rows)
             cat == from_type_column(row.desc)
         IN IF cat # <<>>
            THEN (IF current_rows # <<>>
                  THEN << <<current_category, current_rows>> >> ELSE <<>>)
                 \o processed_rows(Tail(result_rows), cat[1], <<>>)
            ELSE IF row.code # <<>>
            THEN processed_rows(Tail(result_rows), current_category,
                                Append(current_rows, row))
            ELSE processed_rows(Tail(result_rows), current_category, current_rows)

\* set_rows: quantity * factor of a row in hundredths, 0 if either does not
\* parse
row_emission(row) ==
    IF is_f64(row.qty) /\ is_f64(row.factor)
    THEN (parse_f64(row.qty) * parse_f64(row.factor)) \div 100
    ELSE 0

RECURSIVE category_total(_)
category_total(rows) ==
    IF rows = <<>> THEN 0 ELSE row_emission(Head(rows)) + category_total(Tail(rows))

category_title(category) ==
    CASE category = "Labor"    -> <<"yi", "dun">>
      [] category = "Material" -> <<"san", "dun">>
      [] category = "Machine"  -> <<"si", "dun">>
      [] OTHER                 -> <<>>

category_name_of(category) ==
    CASE category = "Labor"    -> <<"ren", "gong">>
      [] category = "Material" -> <<"cai", "liao">>
      [] category = "Machine"  -> <<"ji", "xie">>
      [] OTHER                 -> <<>>

\* set_rows, second round: title row, numbered rows and separator of the
\* groups from the category_index-th on
RECURSIVE set_rows_from(_, _)
set_rows_from(groups, category_index) ==
    IF category_index > Len(groups) THEN <<>>
    ELSE LET category == groups[category_index][1]
             rows     == groups[category_index][2]
             title_row ==
                 [default_sub_item EXCEPT
                    !.seq = category_title(category),
                    !.desc = category_name_of(category) \o <<"lei", "bie">>,
                    !.emission = Fmt4(category_total(rows)),
                    !.category = category]
             body == [ i \in 1..Len(rows) |->
                         [rows[i] EXCEPT
                            !.seq = FmtInt(i),
                            !.emission = IF is_f64(rows[i].qty) /\ is_f64(rows[i].factor)
                                         THEN Fmt4(row_emission(rows[i]))
                                         ELSE rows[i].emission] ]
         IN <<title_row>> \o body
            \o (IF category_index < Len(groups) THEN <<default_sub_item>> ELSE <<>>)
            \o set_rows_from(groups, category_index + 1)

\* ResultDetailsTableDelegate::set_rows
set_rows(result_rows) == set_rows_from(processed_rows(result_rows, "None", <<>>), 1)

\* load_sub_items_for_sheet: the sheets whose name after the first space is
\* sheet_name; the query has no ORDER BY, the first row it returns is taken
matching_sheets(shs, sheet_name) ==
    { i \in 1..Len(shs) :
        /\ instr_space(shs[i].name) > 0
        /\ SubSeq(shs[i].name, instr_space(shs[i].name) + 1, Len(shs[i].name)) = sheet_name }

\* load_sub_items_for_sheet on the panel as the caller left it
load_sub_items_for_sheet(sheet_name, store_ok, panel) ==
    IF ~store_ok
    THEN /\ notes' = <<Note("Error", "db_connect_failed")>>
         /\ details' = panel
    ELSE IF matching_sheets(sheets, sheet_name) = {}
    THEN /\ notes' = <<Note("Error", "no_matching_sheet")>>
         /\ details' = panel
    ELSE \E m \in matching_sheets(sheets, sheet_name) :
           LET sheet_id == sheets[m].id
               count == Cardinality({ i \in 1..Len(excel_data) :
                                         excel_data[i].sheet_id = sheet_id })
               sub_items == sub_items_from(1, excel_data, sheet_id, labor, material, machine)
           IN IF count = 0
              THEN /\ notes' = <<Note("Warning", "sheet_no_data")>>
                   /\ details' = panel
              ELSE IF sub_items = <<>>
              THEN /\ notes' = <<Note("Warning", "no_sub_items")>>
                   /\ details' = panel
              ELSE /\ notes' = <<>>
                   /\ details' = <<set_rows(sub_items)>>

\* TableEvent::SelectRow(row_ix) on the result table
select_row(row_ix, store_ok) ==
    /\ alive
    /\ row_ix \in 1..Len(total_rows)
    /\ LET row == total_rows[row_ix]
           is_category == ~contains_space(row.name) /\ row.unit = <<>>
       IN IF is_category
          THEN /\ notes' = <<>>
               /\ details' = details
               /\ last_op' = Op("select_row", "skipped", [row |-> row_ix, store |-> store_ok])
          ELSE /\ load_sub_items_for_sheet(row.name, store_ok,
                                           IF details = <<>> THEN << <<>> >> ELSE details)
               /\ last_op' = Op("select_row", "loaded", [row |-> row_ix, store |-> store_ok])
    /\ events' = <<>>
    /\ UNCHANGED <<sheets, excel_data, labor, material, machine, current_sheet, table,
                   total_rows, sub_rows, alive, exporting, file, pf>>

----
(* Specifications *)

PfIdle == [cat |-> "None", code |-> <<>>, out |-> <<>>, again |-> <<>>, step |-> 0]

\* IndicatorStory::new on a new store, when no reference workbook lies at
\* the default path
Init ==
    /\ sheets = <<>>
    /\ excel_data = <<>>
    /\ labor = {}
    /\ material = {}
    /\ machine = {}
    /\ current_sheet = <<>>
    /\ table = <<>>
    /\ total_rows = <<>>
    /\ sub_rows = <<>>
    /\ notes = <<Note("Error", "open_ref_failed")>>
    /\ events = <<>>
    /\ exporting = <<>>
    /\ file = <<>>
    /\ details = <<>>
    /\ alive = TRUE
    /\ last_op = Op("new", "open_failed", <<>>)
    /\ pf = PfIdle

\* IndicatorStory::new on a new store: init_carbonref_database, then
\* load_resource_data on the workbook at the default path
InitLoaded ==
    /\ sheets = <<>>
    /\ excel_data = <<>>
    /\ current_sheet = <<>>
    /\ table = <<>>
    /\ total_rows = <<>>
    /\ sub_rows = <<>>
    /\ events = <<>>
    /\ exporting = <<>>
    /\ file = <<>>
    /\ details = <<>>
    /\ pf = PfIdle
    /\ \E rb \in AssetBooks :
         LET tx == ReloadTx(rb)
             committed == tx.success /\ ~tx.panicked
         IN /\ labor = IF committed THEN tx.tables.labor ELSE {}
            /\ material = IF committed THEN tx.tables.material ELSE {}
            /\ machine = IF committed THEN tx.tables.machine ELSE {}
            /\ alive = ~tx.panicked
            /\ notes = IF tx.panicked THEN <<>>
                       ELSE IF tx.success THEN <<Note("Success", "ref_ok")>>
                       ELSE <<Note("Error", "no_valid_ref_data")>>
            /\ last_op = Op("new", IF tx.panicked THEN "panicked"
                                   ELSE IF tx.success THEN "committed"
                                   ELSE "no_valid_ref_data", <<>>)

\* imports of one-sheet workbooks into a store whose reference tables were
\* loaded at construction
NextRows ==
    \E wb \in RichBooks : load_excel(wb, TRUE)

SpecRows == InitLoaded /\ [][NextRows]_vars

\* imports of many-sheet workbooks, and imports that fail
NextSheets ==
    \/ \E wb \in ThinBooks : load_excel(wb, TRUE)
    \/ load_excel_open_failed
    \/ load_excel_db_failed

SpecSheets == Init /\ [][NextSheets]_vars

\* reloads of the reference tables
NextReload ==
    \/ \E rb \in RefBooks : load_resource_data(rb)
    \/ load_resource_data_open_failed
    \/ load_resource_data_db_failed

SpecReload == Init /\ [][NextReload]_vars

\* imports of workbooks with named worksheets, and sheet changes
NextView ==
    \/ \E wb \in NamedBooks : load_excel(wb, TRUE)
    \/ \E ws \in NamedSheets, store_ok \in BOOLEAN :
          on_change_sheet(ws.name, store_ok)

SpecView == Init /\ [][NextView]_vars

\* the prefixing rule on its own: any category, any raw code
CodeChars == {"L", "M", "E", "1"}

RawCodes == { c \in SeqsUpTo(CodeChars, MaxCodeLen) : c # <<>> }

InitPrefix ==
    /\ sheets = <<>>
    /\ excel_data = <<>>
    /\ labor = {}
    /\ material = {}
    /\ machine = {}
    /\ current_sheet = <<>>
    /\ table = <<>>
    /\ total_rows = <<>>
    /\ sub_rows = <<>>
    /\ notes = <<>>
    /\ events = <<>>
    /\ exporting = <<>>
    /\ file = <<>>
    /\ details = <<>>
    /\ alive = TRUE
    /\ last_op = Op("new", "open_failed", <<>>)
    /\ \E cat \in Category, code \in RawCodes :
         pf = [cat |-> cat, code |-> code, out |-> <<>>, again |-> <<>>, step |-> 0]

NextPrefix ==
    \/ apply_prefix
    \/ reapply_prefix

SpecPrefix == InitPrefix /\ [][NextPrefix]_vars

\* imports of worksheets of either layout, and of pairs of worksheets
NextLayout ==
    \E wb \in LayoutBooks : load_excel(wb, TRUE)

SpecLayout == Init /\ [][NextLayout]_vars

\* an imported workbook, sheet changes, volume edits and exports
NextEdit ==
    \/ \E wb \in EditBooks : load_excel(wb, TRUE)
    \/ \E ws \in EditSheets, store_ok \in BOOLEAN : on_change_sheet(ws.name, store_ok)
    \/ \E row_ix \in 1..(MaxSheets + 1), new_value \in EditInputs :
          edit_volume(row_ix, new_value)
    \/ export_clicked
    \/ export_saved
    \/ export_write_failed
    \/ export_cancelled

SpecEdit == Init /\ [][NextEdit]_vars

\* imports of workbooks of up to four engineering types, and sheet changes
NextTypes ==
    \/ \E wb \in TypeBooks : load_excel(wb, TRUE)
    \/ \E ws \in TypeSheets, store_ok \in BOOLEAN : on_change_sheet(ws.name, store_ok)

SpecTypes == Init /\ [][NextTypes]_vars

\* an imported workbook, reference reloads and sheet changes
NextFactors ==
    \/ \E wb \in EditBooks : load_excel(wb, TRUE)
    \/ \E rb \in RefBooks : load_resource_data(rb)
    \/ \E ws \in EditSheets : on_change_sheet(ws.name, TRUE)

SpecFactors == Init /\ [][NextFactors]_vars

\* imports of worksheets with a twice-named quantity column, and sheet
\* changes
NextTwin ==
    \/ \E wb \in TwinBooks, pick \in {"qty", "qty2"}, store_ok \in BOOLEAN :
          load_excel_twin(wb, pick, store_ok)
    \/ \E store_ok \in BOOLEAN : on_change_sheet(<<"a">>, store_ok)

SpecTwin == Init /\ [][NextTwin]_vars

\* imports, and row selections in the result table
NextDetail ==
    \/ \E wb \in DetailBooks : load_excel(wb, TRUE)
    \/ \E row_ix \in 1..(MaxSheets + 1), store_ok \in BOOLEAN : select_row(row_ix, store_ok)

SpecDetail == Init /\ [][NextDetail]_vars

\* the classifier on its own: markers, near-markers and other texts, bare or
\* between spaces
ClassifyCores ==
    { LaborMarker, MaterialMarker, MachineMarker, <<>>, <<"d">>, <<"ren", "gong">>,
      <<"ren", "gong", " ", "lei", "bie">>, <<"ren", "gong", "lei", "bie", "d">> }

Pads == SeqsUpTo({" "}, MaxPad)

ClassifyTexts == { l \o c \o r : l \in Pads, c \in ClassifyCores, r \in Pads }

InitClassify ==
    /\ sheets = <<>>
    /\ excel_data = <<>>
    /\ labor = {}
    /\ material = {}
    /\ machine = {}
    /\ current_sheet = <<>>
    /\ table = <<>>
    /\ total_rows = <<>>
    /\ sub_rows = <<>>
    /\ notes = <<>>
    /\ events = <<>>
    /\ exporting = <<>>
    /\ file = <<>>
    /\ details = <<>>
    /\ alive = TRUE
    /\ last_op = Op("new", "open_failed", <<>>)
    /\ \E text \in ClassifyTexts :
         pf = [text |-> text, out |-> <<>>, again |-> <<>>, step |-> 0]

NextClassify ==
    \/ classify
    \/ classify_again

SpecClassify == InitClassify /\ [][NextClassify]_vars

\* every handler on every input
Next ==
    \/ \E wb \in RichBooks \cup ThinBooks, store_ok \in BOOLEAN : load_excel(wb, store_ok)
    \/ load_excel_open_failed
    \/ load_excel_db_failed
    \/ \E n \in SheetNames, store_ok \in BOOLEAN : on_change_sheet(n, store_ok)
    \/ \E rb \in RefBooks : load_resource_data(rb)
    \/ load_resource_data_open_failed
    \/ load_resource_data_db_failed
    \/ \E row_ix \in 1..(MaxSheets + 1), new_value \in EditInputs :
          edit_volume(row_ix, new_value)
    \/ export_clicked
    \/ export_saved
    \/ export_write_failed
    \/ export_cancelled
    \/ \E row_ix \in 1..(MaxSheets + 1), store_ok \in BOOLEAN : select_row(row_ix, store_ok)
    \/ \E wb \in TwinBooks, pick \in {"qty", "qty2"}, store_ok \in BOOLEAN :
          load_excel_twin(wb, pick, store_ok)

Spec == (Init \/ InitLoaded) /\ [][Next]_vars

----------------------------------------------------------------------------
(* What the claims read off a state *)

\* a quantity as the sums are said to take it: its value, 0 when it is
\* empty or not a number
ClaimQty(q) == IF IsNumber(q) THEN digit_prefix(q, 0) ELSE 0

ClaimTable(k) ==
    CASE k = "labor"    -> labor
      [] k = "material" -> material
      [] k = "machine"  -> machine
      [] OTHER          -> {}

\* the factor of an item of category k with stored code c: that of the
\* entry of table k whose code is c without its first character, else 1
ClaimFactor(k, c) ==
    LET hits == { r \in ClaimTable(k) : c # <<>> /\ r.code = Tail(c) }
    IN IF hits = {} THEN 1 ELSE (CHOOSE r \in hits : TRUE).factor

RECURSIVE ClaimSum(_, _, _)
ClaimSum(data, sheet_id, k) ==
    IF data = <<>> THEN 0
    ELSE (IF Head(data).sheet_id = sheet_id /\ Head(data).category = k
          THEN ClaimQty(Head(data).qty) * ClaimFactor(k, Head(data).code) ELSE 0)
         + ClaimSum(Tail(data), sheet_id, k)

\* total_rows has a sheet-summary row for the sheet with the claimed sums
ClaimSummaryShown(sh) ==
    \E j \in 1..Len(total_rows) :
        /\ total_rows[j].unit # <<>>
        /\ total_rows[j].name = Trim(sheet_short_name(sh.name))
        /\ total_rows[j].labor = Fmt2(ClaimSum(excel_data, sh.id, "labor"))
        /\ total_rows[j].material = Fmt2(ClaimSum(excel_data, sh.id, "material"))
        /\ total_rows[j].machine = Fmt2(ClaimSum(excel_data, sh.id, "machine"))
        /\ total_rows[j].subtotal =
              Fmt2(ClaimSum(excel_data, sh.id, "labor")
                   + ClaimSum(excel_data, sh.id, "material")
                   + ClaimSum(excel_data, sh.id, "machine"))

\* every quantity of the sheet is empty or a number
ClaimCleanSheet(sh) ==
    \A i \in 1..Len(excel_data) :
        excel_data[i].sheet_id = sh.id =>
            excel_data[i].qty = <<>> \/ IsNumber(excel_data[i].qty)

----------------------------------------------------------------------------
(* Claims *)

\* C1: the summary row of every imported sheet shows, per category, the sum
\* of quantity * factor over the sheet's items of that category, an item
\* with an empty or unparsable quantity counting 0, and as its subtotal the
\* sum of the three.  Violated: CAST(... AS FLOAT) reads the numeric prefix
\* of a quantity such as "3x".
C1_SummarySums ==
    \A i \in 1..Len(sheets) : ClaimSummaryShown(sheets[i])

\* C2: the factor shown for an item of category k with code c is that of
\* the entry of the table of kind k whose code is c without its first
\* character, and 1 when there is none or the item has no category; a code
\* found in a table of another kind is not used; the sums of a sheet whose
\* quantities are numbers or empty use these factors.
C2_FactorLookup ==
    /\ \A i \in 1..Len(sub_rows) :
          sub_rows[i].factor =
              FmtInt(ClaimFactor(to_string(sub_rows[i].category), sub_rows[i].code))
    /\ \A i \in 1..Len(sheets) :
          ClaimCleanSheet(sheets[i]) => ClaimSummaryShown(sheets[i])

\* a material item whose code is only in the labor table got factor 1
C2_Witness ==
    /\ labor # {}
    /\ material = {}
    /\ \E i \in 1..Len(sub_rows) :
          /\ sub_rows[i].category = "Material"
          /\ sub_rows[i].code = <<"M", "1">>
          /\ sub_rows[i].qty = <<"2">>
          /\ sub_rows[i].factor = <<"1">>
    /\ \E j \in 1..Len(total_rows) : total_rows[j].material = <<"2", ".", "0", "0">>

\* C6: every stored item with a code carries the prefix letter of its own
\* category: L for labor, M for material, E for machine.  Violated: a raw
\* code that starts with one of the three letters is stored as it is.
C6_OwnPrefix ==
    \A i \in 1..Len(excel_data) :
        excel_data[i].code # <<>> =>
            /\ excel_data[i].category = "labor" => Head(excel_data[i].code) = "L"
            /\ excel_data[i].category = "material" => Head(excel_data[i].code) = "M"
            /\ excel_data[i].category = "machine" => Head(excel_data[i].code) = "E"

\* an Error notification is among those pushed
ClaimErrorShown(ns) == \E i \in 1..Len(ns) : ns[i].type = "Error"

\* the import recorded in op had its workbook or its store not open
ClaimNotOpened(op) == op.outcome \in {"open_failed", "db_failed"}

\* no worksheet of the workbook has the required header row
ClaimNoMatch(wb) == \A i \in 1..Len(wb) : ~wb[i].header

\* C3: an import that fails (workbook or store not opened, or no worksheet
\* with the required header row) leaves sheets and line items as they were,
\* pushes an error notification and emits no UpdateResultTable; with no
\* matching worksheet the notification is the "no valid sheet data" error.
C3_FailedImport ==
    [][ (last_op'.op = "load_excel"
           /\ (ClaimNotOpened(last_op') \/ ClaimNoMatch(last_op'.src)))
        => /\ sheets' = sheets
           /\ excel_data' = excel_data
           /\ ClaimErrorShown(notes')
           /\ events' = <<>>
           /\ ~ClaimNotOpened(last_op')
                 => notes' = <<Note("Error", "no_valid_sheet_data")>> ]_vars

\* an import of worksheets without header rows has failed over stored data
C3_Witness ==
    /\ last_op.op = "load_excel"
    /\ Len(last_op.src) > 0
    /\ ClaimNoMatch(last_op.src)
    /\ sheets # <<>>
    /\ excel_data # <<>>
    /\ notes = <<Note("Error", "no_valid_sheet_data")>>
    /\ events = <<>>

\* a row is a category marker, or has no cell with text
ClaimSkipped(row) ==
    \/ Trim(row.desc) \in {LaborMarker, MaterialMarker, MachineMarker}
    \/ Trim(row.desc) = <<>> /\ Trim(row.code) = <<>> /\ Trim(row.qty) = <<>>

\* the items the rows of a worksheet stand for, as <<description, quantity>>
RECURSIVE ClaimItems(_)
ClaimItems(rows) ==
    IF rows = <<>> THEN <<>>
    ELSE (IF ClaimSkipped(Head(rows)) THEN <<>>
          ELSE << <<Trim(Head(rows).desc), Trim(Head(rows).qty)>> >>)
         \o ClaimItems(Tail(rows))

\* the items of the worksheets with a header row, in workbook order
RECURSIVE ClaimEmitted(_)
ClaimEmitted(wb) ==
    IF wb = <<>> THEN <<>>
    ELSE (IF Head(wb).header THEN ClaimItems(Head(wb).rows) ELSE <<>>)
         \o ClaimEmitted(Tail(wb))

C5_SheetIntegrity ==
    /\ \A i, j \in 1..Len(sheets) : sheets[i].name = sheets[j].name => i = j
    /\ \A k \in 1..Len(excel_data) :
          Cardinality({ i \in 1..Len(sheets) : sheets[i].id = excel_data[k].sheet_id }) = 1

\* C7: a raw code that starts with L, M or E is stored as it is, any other
\* as the prefix of the current category followed by the code, and the rule
\* applied to the stored code under the same category gives the stored code.
C7_PrefixIdempotent ==
    /\ pf.step >= 1 =>
          pf.out = IF Head(pf.code) \in {"L", "M", "E"} THEN pf.code
                   ELSE prefix(pf.cat) \o pf.code
    /\ pf.step = 2 => pf.again = pf.out

\* a code prefixed under Labor went through the rule a second time
C7_Witness ==
    /\ pf.step = 2
    /\ pf.cat = "Labor"
    /\ pf.code = <<"1">>
    /\ pf.out = <<"L", "1">>
    /\ pf.again = <<"L", "1">>

\* the reload recorded in op read a workbook that lists a code twice
ClaimRepeatedCode(op) ==
    /\ op.op = "load_resource_data"
    /\ op.outcome \notin {"open_failed", "db_failed"}
    /\ op.src.repeats

\* C8: a reload whose workbook lists a code twice for one kind, so that a
\* row insert fails, commits nothing, pushes an error notification and
\* leaves the application running.  Violated: the failed INSERT is
\* unwrapped and the handler panics.
C8_FailedInsertReported ==
    [][ ClaimRepeatedCode(last_op')
        => /\ labor' = labor
           /\ material' = material
           /\ machine' = machine
           /\ ClaimErrorShown(notes')
           /\ alive' ]_vars

\* C9: after a reload either each table holds exactly the rows with a code
\* of its worksheet, or, the workbook or store not opened or no worksheet
\* with a header row, the three tables are as before and an error is
\* shown.  Violated by the reload of C8: the workbook opens and has header
\* rows, the tables stay as before and no error is shown.
C9_AllOrNothing ==
    [][ last_op'.op = "load_resource_data"
        => IF last_op'.outcome \in {"open_failed", "db_failed"}
           THEN /\ <<labor', material', machine'>> = <<labor, material, machine>>
                /\ ClaimErrorShown(notes')
           ELSE IF ~last_op'.src.found
           THEN /\ <<labor', material', machine'>> = <<labor, material, machine>>
                /\ ClaimErrorShown(notes')
           ELSE /\ labor' = last_op'.src.rows.labor
                /\ material' = last_op'.src.rows.material
                /\ machine' = last_op'.src.rows.machine ]_vars

\* the positions of the type-header rows of total_rows
ClaimHeaders == { p \in 1..Len(total_rows) : total_rows[p].unit = <<>> }

\* the stored sheets of a type, in id order
ClaimGroup(type) ==
    LET OfType(sh) == sheet_type(sh.name) = type
    IN SelectSeq(sheets, OfType)

\* C10: total_rows has one type-header row per type (the sheet name up to
\* its first space), the headers ascend by type, and each header is followed
\* by the summary rows of the sheets of its type, in id order, and no other.
C10_Grouping ==
    /\ Len(total_rows)
          = Cardinality({ sheet_type(sheets[i].name) : i \in 1..Len(sheets) }) + Len(sheets)
    /\ \A i \in 1..Len(sheets) :
          Cardinality({ p \in ClaimHeaders : total_rows[p].name = sheet_type(sheets[i].name) }) = 1
    /\ \A p \in ClaimHeaders :
          /\ \E i \in 1..Len(sheets) : sheet_type(sheets[i].name) = total_rows[p].name
          /\ \A q \in ClaimHeaders : p < q => StrLess(total_rows[p].name, total_rows[q].name)
          /\ LET group == ClaimGroup(total_rows[p].name)
             IN /\ p + Len(group) <= Len(total_rows)
                /\ \A j \in 1..Len(group) :
                      /\ total_rows[p + j].unit # <<>>
                      /\ total_rows[p + j].name = Trim(sheet_short_name(group[j].name))
                /\ p + Len(group) < Len(total_rows) => (p + Len(group) + 1) \in ClaimHeaders

\* sheets stored as "b z", "a", "b x" are shown as a, then b with z before x
C10_Witness ==
    /\ Len(sheets) = 3
    /\ sheets[1].name = <<"b", " ", "z">>
    /\ sheets[2].name = <<"a">>
    /\ sheets[3].name = <<"b", " ", "x">>
    /\ Len(total_rows) = 5
    /\ total_rows[1].name = <<"a">>
    /\ total_rows[3].name = <<"b">>
    /\ total_rows[4].name = <<"z">>
    /\ total_rows[5].name = <<"x">>

\* the sheets stored are "道路工程 A", "交通工程 B", "道路工程 C", in id order
ClaimRoadTrafficRoad ==
    /\ Len(sheets) = 3
    /\ sheets[1].name = <<"dao", "lu", "gong", "cheng", " ", "A">>
    /\ sheets[2].name = <<"jiao", "tong", "gong", "cheng", " ", "B">>
    /\ sheets[3].name = <<"dao", "lu", "gong", "cheng", " ", "C">>

\* C11: with the sheets "道路工程 A", "交通工程 B", "道路工程 C" stored in that
\* order, the rows computed are the header 一 道路工程, the rows A and C, the
\* header 二 交通工程, the row B.  Violated: type_keys.sort() orders strings
\* by code point, and 交 (U+4EA4) is below 道 (U+9053), so 交通工程 is 一.
C11_RoadBeforeTraffic ==
    (ClaimRoadTrafficRoad /\ total_rows # <<>>)
    => /\ Len(total_rows) = 5
       /\ total_rows[1].seq = <<"yi">>
       /\ total_rows[1].name = <<"dao", "lu", "gong", "cheng">>
       /\ total_rows[2].name = <<"A">>
       /\ total_rows[3].name = <<"C">>
       /\ total_rows[4].seq = <<"er">>
       /\ total_rows[4].name = <<"jiao", "tong", "gong", "cheng">>
       /\ total_rows[5].name = <<"B">>

\* the handler recorded in op found the store open when update_data ran
ClaimStoreOpened(op) == op.op = "change_sheet" => op.src.store

\* C12: update_data on a store without sheets returns without error and
\* leaves both the result rows and the detail rows empty.
C12_EmptyStore ==
    (sheets = <<>> /\ events = <<"UpdateResultTable">> /\ ClaimStoreOpened(last_op))
    => /\ total_rows = <<>>
       /\ sub_rows = <<>>
       /\ \A i \in 1..Len(notes) : notes[i].msg # "update_failed"

\* a sheet change on the empty store has run update_data
C12_Witness ==
    /\ sheets = <<>>
    /\ last_op.op = "change_sheet"
    /\ last_op.src.store
    /\ events = <<"UpdateResultTable">>
    /\ total_rows = <<>>
    /\ sub_rows = <<>>

\* C19: every committed import and every sheet change emits
\* UpdateResultTable, and once the handler has returned the result rows and
\* the detail rows are the aggregation of the store as the handler left it.
C19_RecomputeAfterCommit ==
    [][ /\ (last_op'.op = "load_excel" /\ last_op'.outcome = "committed")
              => events' = <<"UpdateResultTable">>
        /\ last_op'.op = "change_sheet" => events' = <<"UpdateResultTable">>
        /\ (events' = <<"UpdateResultTable">> /\ ClaimStoreOpened(last_op'))
              => /\ total_rows' = update_data(sheets', excel_data', labor', material',
                                              machine').total
                 /\ sub_rows' = update_data(sheets', excel_data', labor', material',
                                            machine').sub ]_vars

\* an import of three worksheets is stored and aggregated
C19_Witness ==
    /\ last_op.op = "load_excel"
    /\ last_op.outcome = "committed"
    /\ Len(last_op.src) = 3
    /\ Len(sheets) = 3
    /\ events = <<"UpdateResultTable">>
    /\ Len(total_rows) = 5
    /\ Len(sub_rows) = 6

\* what the classifier is said to return: a category for exactly the three
\* marker strings
ClaimClass(text) ==
    IF text = LaborMarker THEN <<"Labor">>
    ELSE IF text = MaterialMarker THEN <<"Material">>
    ELSE IF text = MachineMarker THEN <<"Machine">>
    ELSE <<>>

\* C13: from_type_column returns Labor, Material, Machine for exactly the
\* three marker strings and None for every other text, a marker between
\* spaces included, and returns the same on a second call.  Violated: the
\* text is trimmed before it is matched.
C13_ExactMarkers ==
    /\ pf.step >= 1 => pf.out = ClaimClass(pf.text)
    /\ pf.step = 2 => pf.again = pf.out

ClaimMarkers == {LaborMarker, MaterialMarker, MachineMarker}

ClaimCommitted(op) == op.op = "load_excel" /\ op.outcome = "committed"

\* C16: a row below the header row whose description cell is a category
\* marker is never stored as a line item, wherever the description column
\* lies.  Violated: the marker is looked for in the cell at column index 2,
\* so under a header row with the code at index 2 the marker row is stored.
C16_MarkerNeverStored ==
    ClaimCommitted(last_op)
    => \A i \in 1..Len(excel_data) : excel_data[i].desc \notin ClaimMarkers

\* the categories the rows of a worksheet give their items: that of the last
\* marker row above the item, none before the first one
RECURSIVE ClaimTags(_, _)
ClaimTags(rows, cat) ==
    IF rows = <<>> THEN <<>>
    ELSE IF Trim(Head(rows).desc) \in ClaimMarkers
    THEN ClaimTags(Tail(rows), MarkerOf(Head(rows).desc))
    ELSE (IF ClaimSkipped(Head(rows)) THEN <<>> ELSE <<to_string(cat)>>)
         \o ClaimTags(Tail(rows), cat)

\* the categories of the items of a workbook, each worksheet starting at none
RECURSIVE ClaimTagged(_)
ClaimTagged(wb) ==
    IF wb = <<>> THEN <<>>
    ELSE (IF Head(wb).header THEN ClaimTags(Head(wb).rows, "None") ELSE <<>>)
         \o ClaimTagged(Tail(wb))

ClaimIsItem(e) == e.desc \notin ClaimMarkers

ClaimStoredItems == SelectSeq(excel_data, ClaimIsItem)

\* C17: every stored line item carries the category of the last marker row
\* above it in its worksheet, or none if there is no marker row above it;
\* the category starts at none in every worksheet and in every import.
\* Violated through the fixed column index of C16: under a header row with
\* the code at index 2 no marker row is seen and the items below it are
\* stored under none.
C17_CategoryOfLastMarker ==
    ClaimCommitted(last_op)
    => [ i \in 1..Len(ClaimStoredItems) |-> ClaimStoredItems[i].category ]
         = ClaimTagged(last_op.src)

\* the worksheets of a workbook that have a header row
ClaimWithHeader(wb) == SelectSeq(wb, LAMBDA ws : ws.header)

\* the rows of a worksheet as <<description, quantity>>
ClaimCells(rows) == { <<Trim(rows[i].desc), Trim(rows[i].qty)>> : i \in 1..Len(rows) }

\* C18: a worksheet without a header row is passed over without an error:
\* the sheets stored by a committed import are the worksheets with a header
\* row, in workbook order, every stored line item is a row below the header
\* row of its worksheet, and no worksheet stores more items than it has rows
\* below its header row.
C18_SkipWithoutHeader ==
    ClaimCommitted(last_op)
    => LET kept == ClaimWithHeader(last_op.src)
       IN /\ [ i \in 1..Len(sheets) |-> sheets[i].name ]
               = [ i \in 1..Len(kept) |-> kept[i].name ]
          /\ ~ClaimErrorShown(notes)
          /\ \A i \in 1..Len(kept) :
                LET mine == SelectSeq(excel_data,
                                LAMBDA e : e.sheet_id = sheets[i].id)
                IN /\ Len(mine) <= Len(kept[i].rows)
                   /\ \A k \in 1..Len(mine) :
                         <<mine[k].desc, mine[k].qty>> \in ClaimCells(kept[i].rows)
          /\ \A k \in 1..Len(excel_data) :
                \E i \in 1..Len(sheets) : excel_data[k].sheet_id = sheets[i].id

\* a workbook whose first worksheet has no header row and whose second one
\* has a marker row and an item is stored as one sheet with one item
C18_Witness ==
    /\ ClaimCommitted(last_op)
    /\ Len(last_op.src) = 2
    /\ ~last_op.src[1].header
    /\ last_op.src[2].header
    /\ Len(last_op.src[2].rows) = 2
    /\ Len(sheets) = 1
    /\ sheets[1].name = <<"b", " ", "x">>
    /\ Len(excel_data) = 1

\* the fields of a result row
ClaimFields ==
    {"seq", "name", "unit", "volume", "index", "labor", "material", "machine", "subtotal"}

\* C14: a confirmed volume edit with an empty text or a number sets the
\* volume of the edited row to the text and changes no other field of that
\* row, no other result row, no detail row and nothing in the store; any
\* other text raises an error notification and changes no row.
C14_EditFrame ==
    [][ last_op'.op = "edit_volume"
        => LET ix   == last_op'.src.row
               text == last_op'.src.text
           IN /\ sheets' = sheets /\ excel_data' = excel_data
              /\ labor' = labor /\ material' = material /\ machine' = machine
              /\ sub_rows' = sub_rows
              /\ Len(total_rows') = Len(total_rows)
              /\ \A i \in 1..Len(total_rows) :
                    \A f \in ClaimFields :
                       (i # ix \/ f # "volume") => total_rows'[i][f] = total_rows[i][f]
              /\ (text = <<>> \/ IsNumber(text))
                    => /\ last_op'.outcome = "accepted"
                       /\ total_rows'[ix].volume = text
              /\ (\E k \in 1..Len(text) : text[k] = "x")
                    => /\ last_op'.outcome = "rejected"
                       /\ total_rows' = total_rows
                       /\ ClaimErrorShown(notes') ]_vars

\* the volume of the second sheet row of three result rows was set to 4
C14_Witness ==
    /\ last_op.op = "edit_volume"
    /\ last_op.outcome = "accepted"
    /\ last_op.src.row = 3
    /\ last_op.src.text = <<"4">>
    /\ Len(total_rows) = 3
    /\ total_rows[3].volume = <<"4">>
    /\ total_rows[2].volume = Placeholder
    /\ sheets # <<>>

\* the nine column names of the exported file
ClaimColumns ==
    << <<"xu", "hao">>, <<"xiang", "mu", "ming", "cheng">>, <<"dan", "wei">>,
       <<"gong", "cheng", "liang">>, <<"zong", "tan", "pai", "fang", "liang">>,
       <<"ren", "gong">>, <<"cai", "liao">>, <<"ji", "xie">>, <<"xiao", "ji">> >>

\* C15: an export takes the result rows as they are when it is asked for;
\* the file it writes has the row of the nine column names and then one row
\* per result row, in order, each cell holding the text the result table
\* shows for it; asked for without result rows it raises an error
\* notification, opens no dialog and writes nothing.
C15_ExportShown ==
    [][ /\ (last_op'.op = "export" /\ last_op'.outcome = "asked")
              => last_op'.src = total_rows /\ exporting' = Append(exporting, total_rows)
        /\ (last_op'.op = "export" /\ last_op'.outcome = "saved")
              => /\ last_op'.src = Head(exporting)
                 /\ Len(file') = Len(last_op'.src) + 1
                 /\ file'[1] = ClaimColumns
                 /\ \A i \in 1..Len(last_op'.src) :
                       /\ Len(file'[i + 1]) = 9
                       /\ \A c \in 0..8 : file'[i + 1][c + 1] = render_td(last_op'.src[i], c)
        /\ (last_op'.op = "export" /\ last_op'.outcome = "empty")
              => /\ total_rows = <<>>
                 /\ ClaimErrorShown(notes')
                 /\ file' = file
                 /\ exporting' = exporting ]_vars

\* three result rows were exported, one with a volume of 4 and a total of 8.00
C15_Witness ==
    /\ last_op.op = "export"
    /\ last_op.outcome = "saved"
    /\ Len(last_op.src) = 3
    /\ last_op.src[2].volume = <<"4">>
    /\ Len(file) = 4
    /\ file[3][4] = <<"4">>
    /\ file[3][5] = <<"8", ".", "0", "0">>
    /\ file[4][5] = <<"-">>
    /\ file[2][3] = <<>>

\* C20: when update_data has run, the volume of every sheet row is the
\* placeholder, whatever volumes the rows held before.
C20_PlaceholderAfterUpdate ==
    events = <<"UpdateResultTable">>
    => \A i \in 1..Len(total_rows) :
          total_rows[i].unit # <<>> => total_rows[i].volume = Placeholder

\* a sheet change has recomputed the three result rows of an imported
\* workbook
C20_Witness ==
    /\ last_op.op = "change_sheet"
    /\ last_op.src.store
    /\ events = <<"UpdateResultTable">>
    /\ Len(total_rows) = 3
    /\ total_rows[2].volume = Placeholder
    /\ total_rows[3].volume = Placeholder

\* whether the export writes the row as a category row
ClaimExportCategory(row) == export_row(row)[3] = <<>> /\ export_row(row)[9] = <<>>

\* the volume of a row times its subtotal, to two decimals, for a volume of
\* digits
ClaimTotal(row) ==
    IF IsNumber(row.volume)
    THEN Fmt2(digits_value(row.volume, 0) * cast_float(row.subtotal))
    ELSE <<"-">>

\* C22: for every result row the total cell of the export equals the total
\* cell of the result table: empty for a type header row, volume times
\* subtotal to two decimals for a sheet row whose volume is a number, and
\* "-" for a sheet row whose volume is empty or the placeholder; both draw
\* the same rows as category rows.
C22_TotalCellAgrees ==
    \A i \in 1..Len(total_rows) :
       LET row == total_rows[i]
       IN /\ export_row(row)[5] = render_td(row, 4)
          /\ ClaimExportCategory(row) <=> is_category_row(row)
          /\ is_category_row(row) <=> row.unit = <<>>
          /\ row.unit = <<>> => render_td(row, 4) = <<>>
          /\ row.unit # <<>> => render_td(row, 4) = ClaimTotal(row)

\* a sheet row with a volume of 4 and a subtotal of 2.00 shows 8.00, next
\* to a type header row and a sheet row with the placeholder
C22_Witness ==
    /\ Len(total_rows) = 3
    /\ total_rows[1].unit = <<>>
    /\ total_rows[2].volume = <<"4">>
    /\ total_rows[2].subtotal = <<"2", ".", "0", "0">>
    /\ render_td(total_rows[2], 4) = <<"8", ".", "0", "0">>
    /\ total_rows[3].volume = Placeholder
    /\ export_row(total_rows[3])[5] = <<"-">>

\* the label of the k-th type header row
ClaimLabel(k) ==
    IF k = 1 THEN <<"yi">> ELSE IF k = 2 THEN <<"er">> ELSE IF k = 3 THEN <<"san">>
    ELSE ToDigits(k)

\* the type header rows among the first i result rows
ClaimHeadersUpTo(i) == { j \in 1..i : total_rows[j].unit = <<>> }

\* C23: the k-th type header row is labelled yi, er, san for k up to 3 and
\* with the numeral of k from 4 on, and the sheet rows below a type header
\* row are numbered from 1 on.
C23_OrdinalLabels ==
    \A i \in 1..Len(total_rows) :
       LET hs == ClaimHeadersUpTo(i)
       IN IF total_rows[i].unit = <<>>
          THEN total_rows[i].seq = ClaimLabel(Cardinality(hs))
          ELSE /\ hs # {}
               /\ LET last == CHOOSE j \in hs : \A o \in hs : o <= j
                  IN total_rows[i].seq = ToDigits(i - last)

\* four groups, the second of two sheets: nine result rows, the fourth
\* header labelled 4
C23_Witness ==
    /\ Len(sheets) = 5
    /\ Len(total_rows) = 9
    /\ total_rows[1].seq = <<"yi">> /\ total_rows[1].name = <<"A">>
    /\ total_rows[2].seq = <<"1">> /\ total_rows[3].seq = <<"2">>
    /\ total_rows[4].seq = <<"er">>
    /\ total_rows[6].seq = <<"san">>
    /\ total_rows[8].seq = <<"4">> /\ total_rows[8].name = <<"D">>
    /\ total_rows[9].seq = <<"1">>

\* the volumes of the rows of a snapshot, as the export writes them
ClaimVolumes(rows) == [ i \in 1..Len(rows) |-> rows[i].volume ]

\* C29: the rows an export writes are those cloned when the export was
\* asked for: no edit, import or sheet change touches the clone while the
\* dialog is open, the saved file holds the names and volumes of the clone,
\* and a dismissed dialog leaves the file, the result rows and the store as
\* they are.
C29_ExportSnapshot ==
    [][ /\ last_op'.op # "export" => exporting' = exporting
        /\ (last_op'.op = "export" /\ last_op'.outcome = "saved")
              => /\ exporting # <<>>
                 /\ Len(file') = Len(Head(exporting)) + 1
                 /\ \A i \in 1..Len(Head(exporting)) :
                       /\ file'[i + 1][2] = Head(exporting)[i].name
                       /\ file'[i + 1][4] = Head(exporting)[i].volume
                 /\ total_rows' = total_rows
        /\ (last_op'.op = "export" /\ last_op'.outcome = "cancelled")
              => /\ file' = file
                 /\ total_rows' = total_rows /\ sub_rows' = sub_rows
                 /\ sheets' = sheets /\ excel_data' = excel_data
                 /\ labor' = labor /\ material' = material /\ machine' = machine
                 /\ current_sheet' = current_sheet /\ table' = table ]_vars

\* the saved file holds the placeholder for a row whose volume was set to 4
\* while the dialog was open
C29_Witness ==
    /\ last_op.op = "export"
    /\ last_op.outcome = "saved"
    /\ Len(file) = 4
    /\ Len(total_rows) = 3
    /\ total_rows[2].volume = <<"4">>
    /\ file[3][4] = Placeholder
    /\ file[3][5] = <<"-">>

\* the handler recorded in op ran update_data on a store that did not open
ClaimStoreFailed(op) == op.op = "change_sheet" /\ ~op.src.store

\* C30: when update_data fails because the store does not open, the error
\* is shown and neither result rows nor detail rows are left, whatever rows
\* were shown before.
C30_FailedUpdateClears ==
    /\ ClaimStoreFailed(last_op)
          => /\ \E i \in 1..Len(notes) :
                   notes[i] = Note("Error", "update_failed")
             /\ total_rows = <<>>
             /\ sub_rows = <<>>
    /\ (\E i \in 1..Len(notes) : notes[i].msg = "update_failed")
          => total_rows = <<>> /\ sub_rows = <<>>

\* a sheet change on a store of three sheets whose update_data failed
C30_Witness ==
    /\ ClaimStoreFailed(last_op)
    /\ Len(sheets) = 3
    /\ excel_data # <<>>
    /\ total_rows = <<>>
    /\ sub_rows = <<>>
    /\ notes[Len(notes)] = Note("Error", "update_failed")

\* C26: after a committed reference reload on a store with sheets the
\* result rows are the aggregation of the stored line items against the
\* tables as reloaded.  Violated: load_resource_data emits no
\* UpdateResultTable, so the result rows stay as they were.
C26_RecomputeAfterReload ==
    (last_op.op = "load_resource_data" /\ last_op.outcome = "committed" /\ sheets # <<>>)
    => total_rows = update_data(sheets, excel_data, labor, material, machine).total

\* the reference tables hold at most one row per code
ClaimOneRowPerCode(tbl) == \A r1, r2 \in tbl : r1.code = r2.code => r1 = r2

\* C28: every reference table holds at most one row per code, whatever
\* reloads have run, and the join of the aggregation pairs every stored line
\* item with exactly one row, also when its stripped code is in the tables
\* of several kinds.
C28_CountedOnce ==
    /\ ClaimOneRowPerCode(labor)
    /\ ClaimOneRowPerCode(material)
    /\ ClaimOneRowPerCode(machine)
    /\ \A i \in 1..Len(excel_data) :
          Len(joined(excel_data[i], labor, material, machine)) = 1
    /\ \A s \in 1..Len(sheets) :
          Len(combined_data(excel_data, sheets[s].id, labor, material, machine))
            = Cardinality({ i \in 1..Len(excel_data) : excel_data[i].sheet_id = sheets[s].id })

\* the code of a stored labor item is in the labor and the material table
C28_Witness ==
    /\ last_op.op = "load_resource_data"
    /\ last_op.outcome = "committed"
    /\ \E i \in 1..Len(excel_data) :
          /\ excel_data[i].category = "labor"
          /\ \E l \in labor : l.code = substr2(excel_data[i].code)
          /\ \E m \in material : m.code = substr2(excel_data[i].code)
          /\ Len(joined(excel_data[i], labor, material, machine)) = 1

\* C27: a committed import of the workbook that the import before it
\* stored leaves the sheets and the line items as they are, also when a
\* header row names a required column twice.  Violated: with two quantity
\* columns the iteration order of a HashMap picks the column, and the second
\* import may store the cells of the other one.
C27_ImportIdempotent ==
    [][ ( /\ ClaimCommitted(last_op) /\ ClaimCommitted(last_op')
          /\ last_op'.src = last_op.src )
        => sheets' = sheets /\ excel_data' = excel_data ]_vars

\* a row selection that reached set_rows
ClaimShown(op, ns) == op.op = "select_row" /\ op.outcome = "loaded" /\ ns = <<>>

\* the stored line items of a category of a sheet, in import order
ClaimCategoryItems(sheet_id, k) ==
    SelectSeq(excel_data, LAMBDA e : e.sheet_id = sheet_id /\ e.category = k)

\* one group of the drill-down list: header, numbered items
ClaimGroupRows(sheet_id, k) ==
    LET items == ClaimCategoryItems(sheet_id, k)
    IN IF items = <<>> THEN <<>>
       ELSE << <<"header", k>> >>
            \o [ i \in 1..Len(items) |-> <<ToDigits(i), items[i].desc, items[i].qty>> ]

\* groups joined by one blank row
ClaimJoin(a, b) == IF a = <<>> THEN b ELSE IF b = <<>> THEN a ELSE a \o << <<"blank">> >> \o b

\* the drill-down list of a sheet: labor, material, machine
ClaimDrill(sheet_id) ==
    ClaimJoin(ClaimGroupRows(sheet_id, "labor"),
              ClaimJoin(ClaimGroupRows(sheet_id, "material"),
                        ClaimGroupRows(sheet_id, "machine")))

\* a row of the panel as header, blank row or numbered item
ClaimKindOf(row) ==
    IF row = default_sub_item THEN <<"blank">>
    ELSE IF row.code = <<>> /\ like_category(row.desc) /\ row.qty = <<>>
         THEN <<"header", to_string(row.category)>>
         ELSE <<row.seq, row.desc, row.qty>>

\* C21: the list shown for a sheet is one group for each of labor,
\* material, machine that the sheet has items of, in that order, each a
\* header row and the items of the category in import order numbered from 1,
\* with one blank row between groups and none at the end.  Violated: set_rows
\* drops every item without a code, and the group with it if no item is left.
C21_DrillDownGroups ==
    [][ (ClaimShown(last_op', notes') /\ Len(sheets) = 1)
        => /\ details' # <<>>
           /\ [ i \in 1..Len(details'[1]) |-> ClaimKindOf(details'[1][i]) ]
                = ClaimDrill(sheets[1].id) ]_vars

\* the text of a number with two or four decimals, in hundredths
ClaimHundredths(text) == parse_f64(text)

\* C24: the total on the header row of a category in the drill-down list of
\* a sheet is the subtotal of that category in the sheet's result row.
\* Violated: the result row sums every item of the category with a quantity,
\* the drill-down list only those with a code.
C24_DrillTotalsAgree ==
    [][ (ClaimShown(last_op', notes') /\ Len(sheets) = 1)
        => /\ details' # <<>>
           /\ \A k \in {"labor", "material", "machine"} :
                 LET row    == total_rows[last_op'.src.row]
                     titles == { i \in 1..Len(details'[1]) :
                                   ClaimKindOf(details'[1][i]) = <<"header", k>> }
                 IN IF titles = {}
                    THEN ClaimHundredths(row[k]) = 0
                    ELSE \A i \in titles :
                            ClaimHundredths(details'[1][i].emission)
                              = ClaimHundredths(row[k]) ]_vars

\* the sheet a result row summarises: the n-th sheet of the type named by
\* the header row above it
ClaimSheetOfRow(i) ==
    LET hs   == { j \in 1..i : total_rows[j].unit = <<>> }
        h    == CHOOSE j \in hs : \A o \in hs : o <= j
        mine == SelectSeq(sheets, LAMBDA sh : sheet_type(sh.name) = total_rows[h].name)
    IN mine[i - h].id

\* C25: selecting a sheet row loads the list of the sheet the row
\* summarises, and selecting a type header row leaves the panel as it is.
\* Violated: the sheet is looked up by the text after the first space of its
\* name alone, so of two sheets "A x" and "B x" one is shown for both rows,
\* and a sheet without a space in its name is never found.
C25_SelectedSheetShown ==
    [][ last_op'.op = "select_row"
        => IF total_rows[last_op'.src.row].unit = <<>>
           THEN details' = details
           ELSE last_op'.src.store
                => LET expected ==
                         set_rows(sub_items_from(1, excel_data,
                                    ClaimSheetOfRow(last_op'.src.row),
                                    labor, material, machine))
                   IN expected # <<>> => details' = <<expected>> ]_vars

====
